---- MODULE Spec2Model ----
(***************************************************************************)
(* Card border-detection and normalisation pipeline of 14trees-ocr:        *)
(* CardPreprocessor (src/card_preprocessor.py), the service-path copy      *)
(* preprocess_card_image (src/cloudrun/preprocessing.py) and the thumbnail *)
(* encoder compress_to_jpeg_under_kb (src/cloudrun/main.py).               *)
(***************************************************************************)
EXTENDS Integers, Sequences, FiniteSets, TLC

(***************************************************************************)
(* Python floats.  The sources compute with IEEE-754 binary64: a positive  *)
(* float is m / 2^frac for a natural number m of at most Prec bits, and    *)
(* every operation rounds its exact result to nearest, ties to even.  A    *)
(* natural number is held as its digits to the base 256, most significant  *)
(* first, so that every intermediate number stays small.                   *)
(***************************************************************************)
Prec == 53
Base == 256

Pow2(n) == CASE n = 0 -> 1 [] n = 1 -> 2 [] n = 2 -> 4 [] n = 3 -> 8
             [] n = 4 -> 16 [] n = 5 -> 32 [] n = 6 -> 64 [] n = 7 -> 128
             [] OTHER -> 256

\* The number of bits of a natural number below 2^31.
RECURSIVE BitLenInt(_)
BitLenInt(n) == IF n = 0 THEN 0 ELSE 1 + BitLenInt(n \div 2)

RECURSIVE Digits(_)
Digits(n) == IF n = 0 THEN <<>> ELSE Digits(n \div Base) \o <<n % Base>>

RECURSIVE DigitsInt(_)
DigitsInt(m) ==
    IF m = <<>> THEN 0
    ELSE Base * DigitsInt(SubSeq(m, 1, Len(m) - 1)) + m[Len(m)]

BitLen(m) == IF m = <<>> THEN 0 ELSE 8 * (Len(m) - 1) + BitLenInt(m[1])

RECURSIVE Zeros(_)
Zeros(n) == IF n = 0 THEN <<>> ELSE <<0>> \o Zeros(n - 1)

RECURSIVE Strip(_)
Strip(m) == IF m # <<>> /\ m[1] = 0 THEN Strip(Tail(m)) ELSE m

\* m * k + carry, from the last digit to the first; acc holds the low digits.
RECURSIVE MulSmall(_, _, _, _, _)
MulSmall(m, i, k, carry, acc) ==
    IF i = 0 \/ carry < 0 \/ Len(acc) > Len(m) THEN Digits(carry) \o acc
    ELSE LET t == m[i] * k + carry
         IN  MulSmall(m, i - 1, k, t \div Base, <<t % Base>> \o acc)

\* m \div d and m % d, from the first digit to the last.
RECURSIVE DivSmall(_, _, _, _, _)
DivSmall(m, i, d, r, acc) ==
    IF i > Len(m) \/ r < 0 \/ Len(acc) > Len(m) THEN [q |-> Strip(acc), r |-> r]
    ELSE LET t == r * Base + m[i]
         IN  DivSmall(m, i + 1, d, t % d, Append(acc, t \div d))

\* m * 2^s
ShiftLeft(m, s) == MulSmall(m, Len(m), Pow2(s % 8), 0, <<>>) \o Zeros(s \div 8)

\* m \div 2^s, with the first dropped bit (guard) and whether a later dropped
\* bit is set (rest).
ShiftRight(m, s) ==
    LET a    == s \div 8
        b    == s % 8
        kept == SubSeq(m, 1, Len(m) - a)
        low  == SubSeq(m, Len(m) - a + 1, Len(m))
        dv   == DivSmall(kept, 1, Pow2(b), 0, <<>>)
        top  == Pow2(BitLenInt(m[1]) - 1)
    IN  IF s >= BitLen(m)
        THEN [q |-> <<>>,
              guard |-> m # <<>> /\ s = BitLen(m),
              rest  |-> m # <<>> /\ (s > BitLen(m) \/ m[1] # top
                                     \/ \E i \in 2..Len(m) : m[i] # 0)]
        ELSE IF b > 0
        THEN [q |-> dv.q,
              guard |-> dv.r >= Pow2(b - 1),
              rest  |-> dv.r % Pow2(b - 1) # 0 \/ \E i \in 1..Len(low) : low[i] # 0]
        ELSE IF a > 0
        THEN [q |-> kept,
              guard |-> low[1] >= 128,
              rest  |-> low[1] % 128 # 0 \/ \E i \in 2..Len(low) : low[i] # 0]
        ELSE [q |-> m, guard |-> FALSE, rest |-> FALSE]

\* Round m / 2^frac to Prec bits (sticky: the exact value lies above m / 2^frac
\* by less than one unit of m).
Round(m, sticky, frac) ==
    LET s  == BitLen(m) - Prec
        sh == ShiftRight(m, s)
        up == sh.guard /\ (sh.rest \/ sticky \/ sh.q[Len(sh.q)] % 2 = 1)
    IN  IF s <= 0 THEN [m |-> m, frac |-> frac]
        ELSE [m |-> IF up THEN MulSmall(sh.q, Len(sh.q), 1, 1, <<>>) ELSE sh.q,
              frac |-> frac - s]

\* n / d for positive integers n, d: Python's true division, correctly rounded.
FloatDiv(n, d) ==
    LET s  == Prec + 1 + BitLenInt(d)
        dv == DivSmall(ShiftLeft(Digits(n), s), 1, d, 0, <<>>)
    IN  Round(dv.q, dv.r # 0, s)

\* k * f for a positive integer k (converted exactly) and a float f.
FloatMulInt(k, f) == Round(MulSmall(f.m, Len(f.m), k, 0, <<>>), FALSE, f.frac)

\* int(f): truncation toward zero of a positive float.
FloatInt(f) == DigitsInt(ShiftRight(f.m, f.frac).q)

\* f has a nonzero fractional part.
FloatHasFraction(f) == ShiftRight(f.m, f.frac).guard \/ ShiftRight(f.m, f.frac).rest

\* a < b for two naturals given by their digits.
DigitsLt(a, b) ==
    IF Len(a) # Len(b) THEN Len(a) < Len(b)
    ELSE \E i \in 1..Len(a) :
            /\ a[i] < b[i]
            /\ \A j \in 1..(i - 1) : a[j] = b[j]

\* f < g for two positive floats.
FloatLt(f, g) ==
    IF f.frac >= g.frac
    THEN DigitsLt(f.m, ShiftLeft(g.m, f.frac - g.frac))
    ELSE DigitsLt(ShiftLeft(f.m, g.frac - f.frac), g.m)

\* a < f and a > f for an integer a >= 0 and a positive float f.
IntLtFloat(a, f) == a < FloatInt(f) \/ (a = FloatInt(f) /\ FloatHasFraction(f))
IntGtFloat(a, f) == a > FloatInt(f)

(***************************************************************************)
(* Program constants.                                                      *)
(***************************************************************************)
target_size == 1600          \* CardPreprocessor.target_size, _resize_if_needed
padding     == 5             \* border padding in both detectors
None        == "None"

Max(a, b) == IF a >= b THEN a ELSE b
Min(a, b) == IF a <= b THEN a ELSE b

(***************************************************************************)
(* Contours.  cv2.findContours is abstracted to its result: the scene of   *)
(* an image is the sequence of contours it holds, each found either by the *)
(* adaptive-threshold extraction or by the Canny-edge extraction, with the *)
(* attributes the code reads: cv2.contourArea, cv2.boundingRect and the    *)
(* vertex count of cv2.approxPolyDP.  A bounding rectangle lies inside the *)
(* image, is at least 1 x 1, and encloses the contour's area.              *)
(***************************************************************************)
MaxContours == 2

\* The offsets of a box from the near and the far border, per axis: nearer
\* to the border than the padding, or farther.
NearOff  == 2
FarOff   == 8
NearEdge == 3
FarEdge  == 10

BoxesOf(W, H) ==
    LET span(lo, hi, D) == <<lo, D - hi - lo>>
        xs == { span(NearOff, FarEdge, W), span(FarOff, NearEdge, W),
                span(FarOff, FarEdge, W),  span(NearOff, NearEdge, W) }
        ys == { span(NearOff, FarEdge, H), span(FarOff, NearEdge, H),
                span(FarOff, FarEdge, H),  span(NearOff, NearEdge, H) }
        aligned == { <<a[1], b[1], a[2], b[2]>> : a \in xs, b \in ys }
        diag    == { q \in aligned :
                        (q[1] = NearOff) = (q[2] = NearOff)
                        /\ (q[1] + q[3] = W - NearEdge) = (q[2] + q[4] = H - NearEdge) }
        narrow  == { <<FarOff, NearOff, W \div 3, H - NearOff - NearEdge>> }
        whole   == { <<0, 0, W, H>> }
    IN  { q \in diag \cup narrow \cup whole :
            q[3] >= 1 /\ q[4] >= 1 /\ q[1] + q[3] <= W /\ q[2] + q[4] <= H }

\* A contour fills its box (less the border pixels), or a fifth of it when the
\* box is one of the inner ones.
AreasOf(q) ==
    { (q[3] - 1) * (q[4] - 1) }
    \cup IF q[1] = FarOff /\ q[2] = FarOff
         THEN { ((q[3] - 1) * (q[4] - 1)) \div 5 } ELSE {}

ContoursOf(W, H) ==
    UNION { { [x |-> q[1], y |-> q[2], w |-> q[3], h |-> q[4],
               area |-> a, corners |-> t[2], by |-> t[1]] :
                a \in AreasOf(q),
                t \in { <<"adaptive", 4>>, <<"adaptive", 6>>, <<"canny", 4>> } } :
            q \in BoxesOf(W, H) }

\* The scenes of exactly n contours.
ScenesOf(W, H, n) == [1..n -> ContoursOf(W, H)]

(***************************************************************************)
(* The contour filters and the choice of the winner, shared by             *)
(* _detect_card_border_v2, _detect_card_border_canny and                   *)
(* _detect_card_border_adaptive.                                           *)
(***************************************************************************)
\* The float literals 0.2, 0.95, 0.6 and 1.5.
MinAreaRatio   == FloatDiv(1, 5)
MaxAreaRatio   == FloatDiv(19, 20)
MinAspectRatio == FloatDiv(3, 5)
MaxAspectRatio == FloatDiv(3, 2)

\* The area filter with <= and >= for its comparisons.
AreaRejectedAtBounds(area, img_area) ==
    \/ ~IntGtFloat(area, FloatMulInt(img_area, MinAreaRatio))
    \/ ~IntLtFloat(area, FloatMulInt(img_area, MaxAreaRatio))

\* The area filter with its upper limit only.
AreaRejectedAbove(area, img_area) ==
    IntGtFloat(area, FloatMulInt(img_area, MaxAreaRatio))

\* area < 0.2 * img_area or area > 0.95 * img_area
AreaRejected(area, img_area) ==
    \/ IntLtFloat(area, FloatMulInt(img_area, MinAreaRatio))
    \/ IntGtFloat(area, FloatMulInt(img_area, MaxAreaRatio))

\* The aspect filter with <= for its comparisons.
AspectAcceptedAtBounds(w, h) ==
    \E aspect_ratio \in { FloatDiv(w, h) } :
        ~FloatLt(aspect_ratio, MinAspectRatio) /\ ~FloatLt(MaxAspectRatio, aspect_ratio)

\* 0.6 < float(w) / h < 1.5
AspectAccepted(w, h) ==
    \E aspect_ratio \in { FloatDiv(w, h) } :
        FloatLt(MinAspectRatio, aspect_ratio) /\ FloatLt(aspect_ratio, MaxAspectRatio)

\* float(w) / h raises ZeroDivisionError
AspectRaises(c) == c.h = 0

ExtractedBy(scene, by) ==
    LET Test(c) == c.by = by IN SelectSeq(scene, Test)

\* The loop of Strategy A without its test of the vertex count.
ValidAnyCorners(contours, W, H) ==
    LET Test(c) == /\ ~AreaRejected(c.area, W * H)
                   /\ AspectAccepted(c.w, c.h)
    IN  SelectSeq(contours, Test)

\* The loop of Strategy A: area filter, then 4 corners, then aspect ratio.
ValidAdaptive(contours, W, H) ==
    LET Test(c) == /\ ~AreaRejected(c.area, W * H)
                   /\ c.corners = 4
                   /\ AspectAccepted(c.w, c.h)
    IN  SelectSeq(contours, Test)

\* The loop of Strategy B: area filter, then aspect ratio.
ValidCanny(contours, W, H) ==
    LET Test(c) == /\ ~AreaRejected(c.area, W * H)
                   /\ AspectAccepted(c.w, c.h)
    IN  SelectSeq(contours, Test)

\* A contour of the loop that reaches the division with a zero height.
RaisesAdaptive(contours, W, H) ==
    \E i \in 1..Len(contours) :
        /\ AspectRaises(contours[i])
        /\ contours[i].corners = 4
        /\ ~AreaRejected(contours[i].area, W * H)

RaisesCanny(contours, W, H) ==
    \E i \in 1..Len(contours) :
        /\ AspectRaises(contours[i])
        /\ ~AreaRejected(contours[i].area, W * H)

\* The first survivor, whatever its area.
FirstContour(valid) == valid[1]

\* max(valid_contours, key=area): the first contour of the largest area.
BestContour(valid) ==
    valid[CHOOSE i \in 1..Len(valid) :
            /\ \A j \in 1..Len(valid) : valid[j].area <= valid[i].area
            /\ \A j \in 1..(i - 1) : valid[j].area < valid[i].area]

\* The padding without the clamp to the far borders.
PadUnclamped(c, W, H) ==
    LET x == Max(0, c.x - padding)
        y == Max(0, c.y - padding)
    IN  <<x, y, c.w + 2 * padding, c.h + 2 * padding>>

\* "Add small padding": the region handed to img.crop, as <<x, y, w, h>>.
PadAndClamp(c, W, H) ==
    LET x == Max(0, c.x - padding)
        y == Max(0, c.y - padding)
        w == Min(W - x, c.w + 2 * padding)
        h == Min(H - y, c.h + 2 * padding)
    IN  <<x, y, w, h>>

\* Strategy B crops the bounding box itself.
BoxOf(c) == <<c.x, c.y, c.w, c.h>>

(***************************************************************************)
(* Images.  An image is its size, its colour mode, the region of the       *)
(* source image it shows and the enhancements applied to it so far.        *)
(***************************************************************************)
NoImage == [w |-> 0, h |-> 0, mode |-> "None", box |-> <<0, 0, 0, 0>>, ops |-> <<>>]

\* Image.open + ImageOps.exif_transpose of a decodable source.
Opened(src) ==
    [w |-> src.W, h |-> src.H, mode |-> src.mode,
     box |-> <<0, 0, src.W, src.H>>, ops |-> <<>>]

\* img.convert('RGB') when the mode is not RGB.
ConvertRGB(image) == [image EXCEPT !.mode = "RGB"]

\* img.crop((x, y, x+w, y+h))
CropTo(image, region) ==
    [image EXCEPT !.w = region[3], !.h = region[4], !.box = region]

\* The outcome of one strategy: an image, nothing, or an exception.
Found(image)  == [kind |-> "image", image |-> image]
NotFound      == [kind |-> "none", image |-> NoImage]
Raised        == [kind |-> "raised", image |-> NoImage]
Fallthrough   == [kind |-> "canny", image |-> NoImage]

\* Strategy A ending the detection by itself: None where the Canny fallback
\* is called.
AdaptiveNoFallback(image, src) ==
    LET contours == ExtractedBy(src.scene, "adaptive")
        valid    == ValidAdaptive(contours, image.w, image.h)
    IN  IF src.cvFault = "adaptive" THEN Raised
        ELSE IF contours = <<>> THEN NotFound
        ELSE IF RaisesAdaptive(contours, image.w, image.h) THEN Raised
        ELSE IF valid = <<>> THEN NotFound
        ELSE Found(CropTo(image, PadAndClamp(BestContour(valid), image.w, image.h)))

\* The body of the try block of _detect_card_border_v2, up to its calls of
\* _detect_card_border_canny.
AdaptiveBody(image, src) ==
    LET contours == ExtractedBy(src.scene, "adaptive")
        valid    == ValidAdaptive(contours, image.w, image.h)
    IN  IF src.cvFault = "adaptive" THEN Raised
        ELSE IF contours = <<>> THEN Fallthrough
        ELSE IF RaisesAdaptive(contours, image.w, image.h) THEN Raised
        ELSE IF valid = <<>> THEN Fallthrough
        ELSE Found(CropTo(image, PadAndClamp(BestContour(valid), image.w, image.h)))

\* The body of the try block of _detect_card_border_canny.
CannyBody(image, src) ==
    LET contours == ExtractedBy(src.scene, "canny")
        valid    == ValidCanny(contours, image.w, image.h)
    IN  IF src.cvFault = "canny" THEN Raised
        ELSE IF contours = <<>> THEN NotFound
        ELSE IF RaisesCanny(contours, image.w, image.h) THEN Raised
        ELSE IF valid = <<>> THEN NotFound
        ELSE Found(CropTo(image, BoxOf(BestContour(valid))))

\* The body of the try block of _detect_card_border_adaptive (service path).
ServiceBody(image, src) ==
    LET contours == ExtractedBy(src.scene, "adaptive")
        valid    == ValidAdaptive(contours, image.w, image.h)
    IN  IF src.cvFault = "adaptive" THEN Raised
        ELSE IF contours = <<>> THEN NotFound
        ELSE IF RaisesAdaptive(contours, image.w, image.h) THEN Raised
        ELSE IF valid = <<>> THEN NotFound
        ELSE Found(CropTo(image, PadAndClamp(BestContour(valid), image.w, image.h)))

\* No except clause: the exception leaves the function.
Reraise(outcome) == outcome

\* "except Exception as e: ... return None" of each of the three functions.
ExceptReturnNone(outcome) == IF outcome.kind = "raised" THEN NotFound ELSE outcome

\* What the Border Detector hands back for an image: the name of the
\* strategy that found the border ("none" when neither did) and the crop.
\* _detect_card_border_v2 returns what its fallback returns;
\* _detect_card_border_adaptive has no fallback.
Labelled(outcome, by) ==
    IF outcome.kind = "image" THEN <<by, outcome.image>> ELSE <<"none", NoImage>>

DetectorResult(impl, image, src) ==
    IF impl = "svc"
    THEN Labelled(ExceptReturnNone(ServiceBody(image, src)), "adaptive")
    ELSE LET a == ExceptReturnNone(AdaptiveBody(image, src))
         IN  IF a.kind = "canny"
             THEN Labelled(ExceptReturnNone(ExceptReturnNone(CannyBody(image, src))), "canny")
             ELSE Labelled(a, "adaptive")

(***************************************************************************)
(* Enhancer and Resizer.                                                   *)
(***************************************************************************)
\* The adjustments with sharpness ahead of contrast.
SharpnessFirst == << <<"sharpness", 15>>, <<"contrast", 13>>,
                     <<"brightness", 11>>, <<"unsharp", 1, 100, 3>> >>

\* _enhance_image / _enhance_for_ocr: factors in tenths, the unsharp mask
\* with its radius, percent and threshold.
EnhanceOps == << <<"contrast", 13>>, <<"sharpness", 15>>,
                 <<"brightness", 11>>, <<"unsharp", 1, 100, 3>> >>

ApplyOp(image, op) == [image EXCEPT !.ops = Append(@, op)]

\* new_w = int(width * scale), new_h = int(height * scale),
\* scale = target / longest
ScaledSize(w, h, target) ==
    LET scale == FloatDiv(target, Max(w, h))
    IN  <<FloatInt(FloatMulInt(w, scale)), FloatInt(FloatMulInt(h, scale))>>

NeedsResize(w, h, target) == Max(w, h) > target

\* Image.resize refuses a size with a side below 1 (ValueError).
ResizeRaises(w, h, target) ==
    /\ NeedsResize(w, h, target)
    /\ \/ ScaledSize(w, h, target)[1] < 1
       \/ ScaledSize(w, h, target)[2] < 1

\* _resize_image / _resize_if_needed on an image it can resize.
resize_image(image, target) ==
    IF NeedsResize(image.w, image.h, target)
    THEN [image EXCEPT !.w = ScaledSize(image.w, image.h, target)[1],
                       !.h = ScaledSize(image.w, image.h, target)[2],
                       !.ops = Append(@, <<"lanczos", target>>)]
    ELSE image

(***************************************************************************)
(* Encoded bytes.                                                          *)
(***************************************************************************)
\* The bytes handed to the pipeline.
OriginalBytes(src) ==
    [fmt |-> src.fmt, quality |-> 0, image |-> IF src.fmt = "garbage" THEN NoImage ELSE Opened(src)]

\* img.save(..., 'JPEG', quality=95)
JpegBytes(image, quality) == [fmt |-> "jpeg", quality |-> quality, image |-> image]

\* JPEG cannot hold an alpha channel: save raises OSError for such a mode.
JpegModes == {"RGB", "L"}

(***************************************************************************)
(* State.  Two invocations, each of CardPreprocessor.preprocess ("cli")    *)
(* or of preprocess_card_image ("svc").                                    *)
(***************************************************************************)
Procs == {1, 2}

VARIABLES
    call,         \* call[p]: the arguments and the environment of invocation p
    pc,           \* pc[p]: the stage invocation p executes next
    img,          \* img[p]: the image the stages pass on
    cropped_img,  \* cropped_img[p]: what the Border Detector returned
    found_by,     \* found_by[p]: the strategy that ended the detection
    metadata,     \* metadata[p]: the metadata dict of preprocess
    ret,          \* ret[p]: the value returned to the caller
    files,        \* the files written so far: path -> content
    thumb,        \* the invocation of compress_to_jpeg_under_kb
    remote,       \* Drive, the spreadsheet and the requests sent to the services
    hnd,          \* the invocation of handle(): its request and its locals
    formatted     \* the invocation of SchemaField.format_value_for_notion

vars == <<call, pc, img, cropped_img, found_by, metadata, ret, files, thumb,
          remote, hnd, formatted>>

\* The webhook and the schema formatter at rest.
NoRemote    == [parents |-> << >>, sheet |-> << >>, requests |-> << >>]
HandlerOff  == [pc |-> "off"]
NoFormatted == [pc |-> "off"]
ServiceIdle == remote = NoRemote /\ hnd = HandlerOff /\ formatted = NoFormatted

work_dir == "preprocessed_cards"

NoReturn == [kind |-> "pending"]

EmptyMetadata ==
    [keys |-> {"original_path", "steps_completed", "errors"},
     steps_completed |-> <<>>, errors |-> <<>>,
     cropped |-> FALSE, success |-> FALSE, final_size |-> <<0, 0>>]

\* files with one more file written
Written(fs, path, content) ==
    [q \in DOMAIN fs \cup {path} |-> IF q = path THEN content ELSE fs[q]]

StepPath(filename) == <<work_dir, "steps", filename>>

\* _save_step raises when the image cannot be written as JPEG or the write fails.
SaveStepRaises(c, image) == c.snapFault \/ image.mode \notin JpegModes

\* The snapshots a stage writes when save_steps is set: the files after
\* _save_step(image_i, name_i) for each <<name, image>> of snaps, in order, up
\* to the first that raises.
RECURSIVE SaveSteps(_, _, _)
SaveSteps(fs, c, snaps) ==
    IF snaps = <<>> \/ ~c.save_steps THEN [files |-> fs, raised |-> FALSE]
    ELSE IF SaveStepRaises(c, snaps[1][2]) THEN [files |-> fs, raised |-> TRUE]
    ELSE SaveSteps(Written(fs, StepPath(snaps[1][1]), snaps[1][2]), c, Tail(snaps))

\* cv2.imwrite of the detector's debug images; it reports a failed write by
\* its return value, which the code ignores.
RECURSIVE DebugWrites(_, _, _)
DebugWrites(fs, c, names) ==
    IF names = <<>> \/ ~c.save_steps \/ c.snapFault THEN fs
    ELSE DebugWrites(Written(fs, StepPath(names[1]), names[1]), c, Tail(names))

\* "except Exception as e" of preprocess: success False, the error recorded,
\* (None, metadata) returned.
Failed(m, e) ==
    [m EXCEPT !.keys = @ \cup {"success"}, !.success = FALSE,
              !.errors = Append(@, e)]

Fail(p, m, fs, e) ==
    /\ metadata' = [metadata EXCEPT ![p] = Failed(m, e)]
    /\ ret' = [ret EXCEPT ![p] = [kind |-> "cli", final_path |-> None]]
    /\ pc' = [pc EXCEPT ![p] = "done"]
    /\ files' = fs

\* "except Exception as e" of preprocess_card_image:
\* return image_bytes, mime_type or "image/jpeg"
SvcExcept(p) ==
    /\ ret' = [ret EXCEPT ![p] =
                [kind |-> "svc", bytes |-> OriginalBytes(call[p].src),
                 mime |-> IF call[p].mime = None THEN "image/jpeg" ELSE call[p].mime]]
    /\ pc' = [pc EXCEPT ![p] = "done"]

(***************************************************************************)
(* CardPreprocessor.preprocess, stage by stage.                            *)
(***************************************************************************)
\* Step 1 and 2: _load_image, the 01_loaded snapshot, the RGB conversion.
Load(p) ==
    /\ pc[p] = "load" /\ call[p].impl = "cli"
    /\ UNCHANGED <<remote, hnd, formatted, thumb, call, cropped_img, found_by>>
    /\ IF call[p].src.fmt = "garbage"
       THEN /\ metadata' = [metadata EXCEPT ![p].errors = Append(@, "Failed to load image")]
            /\ ret' = [ret EXCEPT ![p] = [kind |-> "cli", final_path |-> None]]
            /\ pc' = [pc EXCEPT ![p] = "done"]
            /\ UNCHANGED <<img, files>>
       ELSE LET loaded == Opened(call[p].src)
                m == [metadata[p] EXCEPT !.keys = @ \cup {"original_size"},
                                         !.steps_completed = Append(@, "load")]
                saved == SaveSteps(files, call[p], << <<"01_loaded.jpg", loaded>> >>)
            IN  IF saved.raised
                THEN Fail(p, m, saved.files, "OSError") /\ UNCHANGED img
                ELSE /\ img' = [img EXCEPT ![p] = ConvertRGB(loaded)]
                     /\ metadata' = [metadata EXCEPT ![p] = m]
                     /\ files' = saved.files
                     /\ pc' = [pc EXCEPT ![p] = "detect"]
                     /\ UNCHANGED ret

\* _detect_card_border_v2 up to its return or its call of the Canny fallback.
Detect(p) ==
    /\ pc[p] = "detect" /\ call[p].impl = "cli"
    /\ UNCHANGED <<remote, hnd, formatted, thumb, call, img>>
    /\ LET fs == DebugWrites(files, call[p],
                    <<"debug_01_gray.jpg", "debug_02_filtered.jpg", "debug_03_thresh.jpg">>)
       IN  \E outcome \in { ExceptReturnNone(AdaptiveBody(img[p], call[p].src)) } :
           CASE outcome.kind = "canny" ->
                    /\ pc' = [pc EXCEPT ![p] = "canny"]
                    /\ files' = fs
                    /\ UNCHANGED <<cropped_img, found_by, metadata, ret>>
             [] outcome.kind = "raised" ->
                    /\ found_by' = [found_by EXCEPT ![p] = "raised"]
                    /\ Fail(p, metadata[p], fs, "detector")
                    /\ UNCHANGED cropped_img
             [] OTHER ->
                    /\ cropped_img' = [cropped_img EXCEPT ![p] = outcome.image]
                    /\ found_by' = [found_by EXCEPT ![p] =
                            IF outcome.kind = "image" THEN "adaptive" ELSE "none"]
                    /\ pc' = [pc EXCEPT ![p] = "crop"]
                    /\ files' = fs
                    /\ UNCHANGED <<metadata, ret>>

\* _detect_card_border_canny, called from inside the try of _detect_card_border_v2.
Canny(p) ==
    /\ pc[p] = "canny" /\ call[p].impl = "cli"
    /\ UNCHANGED <<remote, hnd, formatted, thumb, call, img>>
    /\ LET fs == DebugWrites(files, call[p], <<"debug_04_edges.jpg", "debug_05_dilated.jpg">>)
       IN  \* its own except, inside the except of _detect_card_border_v2
           \E outcome \in { ExceptReturnNone(ExceptReturnNone(CannyBody(img[p], call[p].src))) } :
           IF outcome.kind = "raised"
           THEN /\ found_by' = [found_by EXCEPT ![p] = "raised"]
                /\ Fail(p, metadata[p], fs, "detector")
                /\ UNCHANGED cropped_img
           ELSE /\ cropped_img' = [cropped_img EXCEPT ![p] = outcome.image]
                /\ found_by' = [found_by EXCEPT ![p] =
                        IF outcome.kind = "image" THEN "canny" ELSE "none"]
                /\ pc' = [pc EXCEPT ![p] = "crop"]
                /\ files' = fs
                /\ UNCHANGED <<metadata, ret>>

\* Lines 68-80: the full image stands in for a missed border; 02_cropped.
Crop(p) ==
    /\ pc[p] = "crop" /\ call[p].impl = "cli"
    /\ UNCHANGED <<remote, hnd, formatted, thumb, call, cropped_img, found_by>>
    /\ LET miss == cropped_img[p] = NoImage
           crop == IF miss THEN img[p] ELSE cropped_img[p]
           m == [metadata[p] EXCEPT
                    !.keys = @ \cup (IF miss THEN {"cropped"} ELSE {"cropped", "cropped_size"}),
                    !.cropped = ~miss,
                    !.steps_completed = Append(@, "crop")]
           saved == SaveSteps(files, call[p], << <<"02_cropped.jpg", crop>> >>)
       IN  IF saved.raised
           THEN Fail(p, m, saved.files, "OSError") /\ UNCHANGED img
           ELSE /\ img' = [img EXCEPT ![p] = crop]
                /\ metadata' = [metadata EXCEPT ![p] = m]
                /\ files' = saved.files
                /\ pc' = [pc EXCEPT ![p] = "enhance"]
                /\ UNCHANGED ret

\* The Enhancer without its entry in steps_completed.
EnhanceUnrecorded(p) ==
    /\ pc[p] = "enhance" /\ call[p].impl = "cli"
    /\ UNCHANGED <<remote, hnd, formatted, thumb, call, cropped_img, found_by, metadata, ret>>
    /\ LET c4 == ApplyOp(ApplyOp(ApplyOp(ApplyOp(img[p], EnhanceOps[1]), EnhanceOps[2]),
                                 EnhanceOps[3]), EnhanceOps[4])
           saved == SaveSteps(files, call[p], << <<"05_enhanced.jpg", c4>> >>)
       IN  /\ ~saved.raised
           /\ img' = [img EXCEPT ![p] = c4]
           /\ files' = saved.files
           /\ pc' = [pc EXCEPT ![p] = "resize"]

\* _enhance_image with its snapshots 03, 04 and 05.
Enhance(p) ==
    /\ pc[p] = "enhance" /\ call[p].impl = "cli"
    /\ UNCHANGED <<remote, hnd, formatted, thumb, call, cropped_img, found_by>>
    /\ LET c1 == ApplyOp(img[p], EnhanceOps[1])
           c2 == ApplyOp(c1, EnhanceOps[2])
           c3 == ApplyOp(c2, EnhanceOps[3])
           c4 == ApplyOp(c3, EnhanceOps[4])
           saved == SaveSteps(files, call[p],
                      << <<"03_contrast.jpg", c1>>, <<"04_sharpness.jpg", c2>>,
                         <<"05_enhanced.jpg", c4>> >>)
       IN  IF saved.raised
           THEN Fail(p, metadata[p], saved.files, "OSError") /\ UNCHANGED img
           ELSE /\ img' = [img EXCEPT ![p] = c4]
                /\ metadata' = [metadata EXCEPT ![p].steps_completed = Append(@, "enhance")]
                /\ files' = saved.files
                /\ pc' = [pc EXCEPT ![p] = "resize"]
                /\ UNCHANGED ret

\* _resize_image and the final_size entry.
Resize(p) ==
    /\ pc[p] = "resize" /\ call[p].impl = "cli"
    /\ UNCHANGED <<remote, hnd, formatted, thumb, call, cropped_img, found_by>>
    /\ IF ResizeRaises(img[p].w, img[p].h, target_size)
       THEN Fail(p, metadata[p], files, "ValueError") /\ UNCHANGED img
       ELSE LET img_final == resize_image(img[p], target_size)
            IN  /\ img' = [img EXCEPT ![p] = img_final]
                /\ metadata' = [metadata EXCEPT
                        ![p].keys = @ \cup {"final_size"},
                        ![p].final_size = <<img_final.w, img_final.h>>,
                        ![p].steps_completed = Append(@, "resize")]
                /\ pc' = [pc EXCEPT ![p] = "save"]
                /\ UNCHANGED <<ret, files>>

\* os.path.join(work_dir, base_name + "_card.jpg")
FinalPath(c) == <<work_dir, c.base_name, "_card.jpg">>

\* Step 6: the final JPEG (quality 95), success, the return.
Save(p) ==
    /\ pc[p] = "save" /\ call[p].impl = "cli"
    /\ UNCHANGED <<remote, hnd, formatted, thumb, call, img, cropped_img, found_by>>
    /\ files' = Written(files, FinalPath(call[p]), JpegBytes(img[p], 95))
    /\ metadata' = [metadata EXCEPT ![p].keys = @ \cup {"final_path", "success"},
                                    ![p].success = TRUE]
    /\ ret' = [ret EXCEPT ![p] = [kind |-> "cli", final_path |-> FinalPath(call[p])]]
    /\ pc' = [pc EXCEPT ![p] = "done"]

(***************************************************************************)
(* preprocess_card_image (service path), stage by stage.                   *)
(***************************************************************************)
\* Step 1 and 2: Image.open, exif_transpose, the RGB conversion.
SvcLoad(p) ==
    /\ pc[p] = "load" /\ call[p].impl = "svc"
    /\ UNCHANGED <<remote, hnd, formatted, thumb, call, cropped_img, found_by, metadata, files>>
    /\ IF call[p].src.fmt = "garbage"
       THEN SvcExcept(p) /\ UNCHANGED img
       ELSE /\ img' = [img EXCEPT ![p] = ConvertRGB(Opened(call[p].src))]
            /\ pc' = [pc EXCEPT ![p] = "detect"]
            /\ UNCHANGED ret

\* _detect_card_border_adaptive
SvcDetect(p) ==
    /\ pc[p] = "detect" /\ call[p].impl = "svc"
    /\ UNCHANGED <<remote, hnd, formatted, thumb, call, img, metadata, files>>
    /\ \E outcome \in { ExceptReturnNone(ServiceBody(img[p], call[p].src)) } :
           IF outcome.kind = "raised"
           THEN /\ found_by' = [found_by EXCEPT ![p] = "raised"]
                /\ SvcExcept(p)
                /\ UNCHANGED cropped_img
           ELSE /\ cropped_img' = [cropped_img EXCEPT ![p] = outcome.image]
                /\ found_by' = [found_by EXCEPT ![p] =
                        IF outcome.kind = "image" THEN "adaptive" ELSE "none"]
                /\ pc' = [pc EXCEPT ![p] = "crop"]
                /\ UNCHANGED ret

\* Lines 42-43: if cropped_img is None: cropped_img = img
SvcCrop(p) ==
    /\ pc[p] = "crop" /\ call[p].impl = "svc"
    /\ UNCHANGED <<remote, hnd, formatted, thumb, call, cropped_img, found_by, metadata, ret, files>>
    /\ img' = [img EXCEPT ![p] = IF cropped_img[p] = NoImage THEN img[p] ELSE cropped_img[p]]
    /\ pc' = [pc EXCEPT ![p] = "enhance"]

\* _enhance_for_ocr
SvcEnhance(p) ==
    /\ pc[p] = "enhance" /\ call[p].impl = "svc"
    /\ UNCHANGED <<remote, hnd, formatted, thumb, call, cropped_img, found_by, metadata, ret, files>>
    /\ img' = [img EXCEPT ![p] =
                ApplyOp(ApplyOp(ApplyOp(ApplyOp(img[p], EnhanceOps[1]), EnhanceOps[2]),
                                EnhanceOps[3]), EnhanceOps[4])]
    /\ pc' = [pc EXCEPT ![p] = "resize"]

\* _resize_if_needed(enhanced_img, target_size=1600)
SvcResize(p) ==
    /\ pc[p] = "resize" /\ call[p].impl = "svc"
    /\ UNCHANGED <<remote, hnd, formatted, thumb, call, cropped_img, found_by, metadata, files>>
    /\ IF ResizeRaises(img[p].w, img[p].h, target_size)
       THEN SvcExcept(p) /\ UNCHANGED img
       ELSE /\ img' = [img EXCEPT ![p] = resize_image(img[p], target_size)]
            /\ pc' = [pc EXCEPT ![p] = "save"]
            /\ UNCHANGED ret

\* Step 6: the JPEG bytes (quality 95) and the pair returned.
SvcEncode(p) ==
    /\ pc[p] = "save" /\ call[p].impl = "svc"
    /\ UNCHANGED <<remote, hnd, formatted, thumb, call, img, cropped_img, found_by, metadata, files>>
    /\ ret' = [ret EXCEPT ![p] =
                [kind |-> "svc", bytes |-> JpegBytes(img[p], 95), mime |-> "image/jpeg"]]
    /\ pc' = [pc EXCEPT ![p] = "done"]

(***************************************************************************)
(* Inputs.                                                                 *)
(***************************************************************************)
\* The image on which the contour scenes are drawn.
ImgW == 40
ImgH == 36

\* Contours per image in the whole-pipeline runs.
PipeContours == 1

\* Uniform images (no contour): within the target size, beyond it, and
\* one pixel high.
PlainSizes == { <<1600, 1200>>, <<2156, 1800>>, <<3200, 1>> }

Source(fmt, mode, W, H, scene, cvFault) ==
    [fmt |-> fmt, mode |-> mode, W |-> W, H |-> H, scene |-> scene, cvFault |-> cvFault]

Decodable == { <<"jpeg", "RGB">>, <<"png", "RGBA">> }
CvFaults  == { "none", "adaptive", "canny" }

Undecodable == Source("garbage", "None", 0, 0, <<>>, "none")

MimeTypes == { None, "image/jpeg", "image/png", "image/heic" }

(***************************************************************************)
(* compress_to_jpeg_under_kb: the thumbnail encoder.  The size of a JPEG   *)
(* encoding is the encoder's to choose: every img.save draws it from the   *)
(* sizes around the byte budget.                                           *)
(***************************************************************************)
max_kb        == 300         \* compress_to_jpeg_under_kb(..., max_kb=300)
max_dim       == 1600        \* its max_dim
first_quality == 85          \* quality = 85
min_quality   == 30          \* while quality >= 30
quality_step  == 10          \* quality -= 10

\* Encoded sizes lie within SizeSlack bytes of the budget, on either side.
SizeSlack == 2

EncodedSizes == (max_kb * 1024 - SizeSlack) .. (max_kb * 1024 + SizeSlack)

\* buf.getvalue() after img.save(buf, format="JPEG", quality=quality, ...)
Encoded(image, quality, size) ==
    [fmt |-> "jpeg", quality |-> quality, image |-> image, size |-> size]

\* best = None
NoBytes == [fmt |-> "none", quality |-> 0, image |-> NoImage, size |-> 0]

\* The comparison taken strictly.
FitsStrictly(size, kb) == size < kb * 1024

\* len(out) <= max_kb * 1024
Fits(size, kb) == size <= kb * 1024

ThumbIdle ==
    [pc |-> "off", src |-> Undecodable, img |-> NoImage, quality |-> 0,
     best |-> NoBytes, tried |-> <<>>, ret |-> NoReturn]

ThumbStart(src) == [ThumbIdle EXCEPT !.pc = "open", !.src = src]

\* open_image, the RGB conversion, the resize to max_dim; quality = 85, best = None.
\* An undecodable input and a refused resize raise to the caller.
ThumbOpen ==
    /\ thumb.pc = "open"
    /\ UNCHANGED <<call, pc, img, cropped_img, found_by, metadata, ret, files,
                 remote, hnd, formatted>>
    /\ IF thumb.src.fmt = "garbage"
          \/ ResizeRaises(thumb.src.W, thumb.src.H, max_dim)
       THEN thumb' = [thumb EXCEPT !.pc = "done", !.ret = [kind |-> "raised"]]
       ELSE thumb' = [thumb EXCEPT
                        !.pc = "loop",
                        !.img = resize_image(ConvertRGB(Opened(thumb.src)), max_dim),
                        !.quality = first_quality,
                        !.best = NoBytes]

\* One pass of "while quality >= 30": encode, best = out, return out if it
\* fits, else quality -= 10.
ThumbEncode ==
    /\ thumb.pc = "loop" /\ thumb.quality >= min_quality
    /\ UNCHANGED <<call, pc, img, cropped_img, found_by, metadata, ret, files,
                 remote, hnd, formatted>>
    /\ \E size \in EncodedSizes :
          LET out == Encoded(thumb.img, thumb.quality, size)
          IN  IF Fits(size, max_kb)
              THEN thumb' = [thumb EXCEPT !.tried = Append(@, out), !.best = out,
                                          !.ret = [kind |-> "bytes", out |-> out],
                                          !.pc = "done"]
              ELSE thumb' = [thumb EXCEPT !.tried = Append(@, out), !.best = out,
                                          !.quality = @ - quality_step]

\* The loop's exit: return best if best is not None else image_bytes
ThumbReturn ==
    /\ thumb.pc = "loop" /\ thumb.quality < min_quality
    /\ UNCHANGED <<call, pc, img, cropped_img, found_by, metadata, ret, files,
                 remote, hnd, formatted>>
    /\ thumb' = [thumb EXCEPT
                    !.pc = "done",
                    !.ret = [kind |-> "bytes",
                             out |-> IF thumb.best # NoBytes THEN thumb.best
                                     ELSE [fmt |-> thumb.src.fmt, quality |-> 0,
                                           image |-> Opened(thumb.src), size |-> 0]]]

\* How an invocation is made: the implementation, save_steps and whether the
\* snapshot directory fails its writes, the declared mime_type.
CliVariants ==
    { [impl |-> "cli", save_steps |-> d[1], snapFault |-> d[2], mime |-> None] :
        d \in { <<FALSE, FALSE>>, <<TRUE, FALSE>>, <<TRUE, TRUE>> } }

SvcVariants ==
    { [impl |-> "svc", save_steps |-> FALSE, snapFault |-> FALSE, mime |-> m] :
        m \in MimeTypes }

Call(v, src) ==
    [impl |-> v.impl, src |-> src, save_steps |-> v.save_steps,
     snapFault |-> v.snapFault, mime |-> v.mime, base_name |-> "card"]

Idle == [impl |-> "off", src |-> Undecodable, save_steps |-> FALSE, snapFault |-> FALSE,
         mime |-> None, base_name |-> "card"]

\* The state before any stage has run, for the calls cs (one per invocation).
Start(cs) ==
    /\ thumb = ThumbIdle /\ ServiceIdle
    /\ call = cs
    /\ pc = [p \in Procs |-> IF cs[p].impl = "off" THEN "off" ELSE "load"]
    /\ img = [p \in Procs |-> NoImage]
    /\ cropped_img = [p \in Procs |-> NoImage]
    /\ found_by = [p \in Procs |-> "pending"]
    /\ metadata = [p \in Procs |-> EmptyMetadata]
    /\ ret = [p \in Procs |-> NoReturn]
    /\ files = << >>

\* One invocation, of either implementation, on src.
StartOne(src) ==
    \E v \in CliVariants \cup SvcVariants :
        Start([p \in Procs |-> IF p = 1 THEN Call(v, src) ELSE Idle])

Init ==
    \/ \E f \in Decodable, n \in 0..PipeContours, cf \in CvFaults :
          \E sc \in ScenesOf(ImgW, ImgH, n) :
              StartOne(Source(f[1], f[2], ImgW, ImgH, sc, cf))
    \/ \E f \in Decodable, s \in PlainSizes :
          StartOne(Source(f[1], f[2], s[1], s[2], <<>>, "none"))
    \/ StartOne(Undecodable)

Next ==
    \E p \in Procs :
        \/ Load(p) \/ Detect(p) \/ Canny(p) \/ Crop(p)
        \/ Enhance(p) \/ Resize(p) \/ Save(p)
        \/ SvcLoad(p) \/ SvcDetect(p) \/ SvcCrop(p)
        \/ SvcEnhance(p) \/ SvcResize(p) \/ SvcEncode(p)

Spec == Init /\ [][Next]_vars

\* The Border Detector alone: the state after the load stage, for every scene.
AfterLoad(c) ==
    /\ thumb = ThumbIdle /\ ServiceIdle
    /\ call = [p \in Procs |-> IF p = 1 THEN c ELSE Idle]
    /\ pc = [p \in Procs |-> IF p = 1 THEN "detect" ELSE "off"]
    /\ img = [p \in Procs |-> IF p = 1 THEN ConvertRGB(Opened(c.src)) ELSE NoImage]
    /\ cropped_img = [p \in Procs |-> NoImage]
    /\ found_by = [p \in Procs |-> "pending"]
    /\ metadata = [p \in Procs |->
            IF p = 1 /\ c.impl = "cli"
            THEN [EmptyMetadata EXCEPT !.keys = @ \cup {"original_size"},
                                       !.steps_completed = <<"load">>]
            ELSE EmptyMetadata]
    /\ ret = [p \in Procs |-> NoReturn]
    /\ files = IF c.save_steps
               THEN Written(<< >>, StepPath("01_loaded.jpg"), Opened(c.src))
               ELSE << >>

InitDetect ==
    \E n \in 0..MaxContours, cf \in CvFaults :
        \E sc \in ScenesOf(ImgW, ImgH, n) :
            \E v \in CliVariants \cup SvcVariants :
                /\ ~v.snapFault /\ v.mime = None
                /\ v.save_steps => cf = "none"
                /\ v.impl = "svc" => cf # "canny"
                /\ AfterLoad(Call(v, Source("jpeg", "RGB", ImgW, ImgH, sc, cf)))

NextDetect == \E p \in Procs : Detect(p) \/ Canny(p) \/ SvcDetect(p)

SpecDetect == InitDetect /\ [][NextDetect]_vars

\* The thumbnail encoder alone, on every source.
InitThumb ==
    /\ ServiceIdle
    /\ call = [p \in Procs |-> Idle]
    /\ pc = [p \in Procs |-> "off"]
    /\ img = [p \in Procs |-> NoImage]
    /\ cropped_img = [p \in Procs |-> NoImage]
    /\ found_by = [p \in Procs |-> "pending"]
    /\ metadata = [p \in Procs |-> EmptyMetadata]
    /\ ret = [p \in Procs |-> NoReturn]
    /\ files = << >>
    /\ \/ \E f \in Decodable, s \in PlainSizes :
             thumb = ThumbStart(Source(f[1], f[2], s[1], s[2], <<>>, "none"))
       \/ thumb = ThumbStart(Undecodable)

NextThumb == ThumbOpen \/ ThumbEncode \/ ThumbReturn

SpecThumb == InitThumb /\ [][NextThumb]_vars

\* CardPreprocessor.preprocess twice on one source: invocation 1 with
\* save_steps (its snapshot directory writable or not), invocation 2 without.
StartPair(src) ==
    \E fault \in BOOLEAN :
        Start([p \in Procs |->
                Call([impl |-> "cli", save_steps |-> (p = 1),
                      snapFault |-> (p = 1 /\ fault), mime |-> None], src)])

InitPair ==
    \/ \E f \in Decodable, n \in 0..PipeContours, cf \in CvFaults :
          \E sc \in ScenesOf(ImgW, ImgH, n) :
              StartPair(Source(f[1], f[2], ImgW, ImgH, sc, cf))
    \/ \E f \in Decodable, s \in PlainSizes :
          StartPair(Source(f[1], f[2], s[1], s[2], <<>>, "none"))
    \/ StartPair(Undecodable)

NextPair ==
    \E p \in Procs :
        \/ Load(p) \/ Detect(p) \/ Canny(p) \/ Crop(p)
        \/ Enhance(p) \/ Resize(p) \/ Save(p)

SpecPair == InitPair /\ [][NextPair]_vars

\* os.path.splitext(os.path.basename(image_path))[0], of a path held as its
\* directory, the stem of its file name and the extension.
base_name(image_path) == image_path.stem

ImagePath(dir, stem, ext) == [dir |-> dir, stem |-> stem, ext |-> ext]

\* preprocess(image_path, save_steps) on the image src stored at image_path.
CallAt(image_path, save_steps, src) ==
    [impl |-> "cli", src |-> src, save_steps |-> save_steps, snapFault |-> FALSE,
     mime |-> None, base_name |-> base_name(image_path), image_path |-> image_path]

\* Two invocations of CardPreprocessor.preprocess in one work_dir, on
\* different images at different paths, their stages interleaved: a card
\* picture and a uniform picture.
InitConc ==
    \E sc \in ScenesOf(ImgW, ImgH, 1), d1 \in BOOLEAN, d2 \in BOOLEAN,
       s \in { q \in PlainSizes : Max(q[1], q[2]) <= target_size } :
        \E path2 \in { ImagePath("inbox", "tree", ".jpg"),
                       ImagePath("inbox", "card", ".png"),
                       ImagePath("scans", "card", ".jpg") } :
            Start([p \in Procs |->
                    IF p = 1
                    THEN CallAt(ImagePath("inbox", "card", ".jpg"), d1,
                                Source("jpeg", "RGB", ImgW, ImgH, sc, "none"))
                    ELSE CallAt(path2, d2,
                                Source("jpeg", "RGB", s[1], s[2], <<>>, "none"))])

SpecConc == InitConc /\ [][NextPair]_vars

\* The image on which the filters are tried at their thresholds.
FilterW == 100
FilterH == 100

\* Contours at the thresholds of the filters: filling the image with an area
\* at, just below and just above 20% and 95% of the image area; and with a
\* bounding box whose width/height is 0.6 and 1.5, and one pixel to either
\* side of them.  Each as a quadrilateral and as a pentagon, for either
\* extraction.
FilterContours(W, H) ==
    LET low    == (W * H) \div 5
        high   == (19 * W * H) \div 20
        areas  == { a \in { low - 1, low, low + 1, high - 1, high, high + 1 } :
                      a <= (W - 1) * (H - 1) }
        u      == H \div 5
        v      == W \div 3
        boxes  == { <<3 * u + d, 5 * u>> : d \in {-1, 0, 1} }
                  \cup { <<3 * v, 2 * v + d>> : d \in {-1, 0, 1} }
        shapes == { <<W, H, a>> : a \in areas }
                  \cup { <<b[1], b[2], (b[1] - 1) * (b[2] - 1)>> : b \in boxes }
    IN  { [x |-> 0, y |-> 0, w |-> q[1], h |-> q[2], area |-> q[3],
           corners |-> t[2], by |-> t[1]] :
            q \in shapes,
            t \in { <<"adaptive", 4>>, <<"adaptive", 5>>, <<"canny", 4>>, <<"canny", 5>> } }

\* The Border Detector of either implementation on an image of one contour.
InitFilter ==
    \E c \in FilterContours(FilterW, FilterH) :
        \E v \in CliVariants \cup SvcVariants :
            /\ ~v.save_steps /\ v.mime = None
            /\ AfterLoad(Call(v, Source("jpeg", "RGB", FilterW, FilterH, <<c>>, "none")))

SpecFilter == InitFilter /\ [][NextDetect]_vars

\* Contours collapsed to a horizontal line: a bounding box of height 0
\* encloses no area.
ZeroHeightContours(W, H) ==
    { [x |-> NearOff, y |-> NearOff, w |-> W \div 2, h |-> 0, area |-> 0,
       corners |-> t[2], by |-> t[1]] :
        t \in { <<"adaptive", 4>>, <<"adaptive", 6>>, <<"canny", 4>> } }

\* The Border Detector on an image with one contour of height 0, alone or
\* before or after one other contour.
InitDegenerate ==
    \E z \in ZeroHeightContours(ImgW, ImgH) :
        \E sc \in { <<z>> }
                  \cup { <<z, c>> : c \in ContoursOf(ImgW, ImgH) }
                  \cup { <<c, z>> : c \in ContoursOf(ImgW, ImgH) } :
            \E v \in CliVariants \cup SvcVariants :
                /\ ~v.save_steps /\ v.mime = None
                /\ AfterLoad(Call(v, Source("jpeg", "RGB", ImgW, ImgH, sc, "none")))

SpecDegenerate == InitDegenerate /\ [][NextDetect]_vars

\* The crop step alone: img.crop((x, y, x+w, y+h)) on a loaded image, for a
\* bounding box inside the image, equal to it, or reaching beyond a border.
CropBoxes(W, H) ==
    { [x |-> x, y |-> y, w |-> w, h |-> h, area |-> 0, corners |-> 4, by |-> "canny"] :
        x \in { 0 - NearOff, 0, FarOff }, y \in { 0 - NearOff, 0, FarOff },
        w \in { W - FarEdge, W, W + NearEdge }, h \in { H - FarEdge, H, H + NearEdge } }

CropStep(p) ==
    /\ pc[p] = "cropper"
    /\ cropped_img' = [cropped_img EXCEPT ![p] = CropTo(img[p], BoxOf(call[p].src.scene[1]))]
    /\ pc' = [pc EXCEPT ![p] = "cropped"]
    /\ UNCHANGED <<remote, hnd, formatted, thumb, call, img, found_by, metadata, ret, files>>

InitCrop ==
    \E b \in CropBoxes(ImgW, ImgH) :
        \E src \in { Source("jpeg", "RGB", ImgW, ImgH, <<b>>, "none") } :
            /\ thumb = ThumbIdle /\ ServiceIdle
            /\ call = [p \in Procs |->
                        IF p = 1
                        THEN Call([impl |-> "cli", save_steps |-> FALSE,
                                   snapFault |-> FALSE, mime |-> None], src)
                        ELSE Idle]
            /\ pc = [p \in Procs |-> IF p = 1 THEN "cropper" ELSE "off"]
            /\ img = [p \in Procs |-> IF p = 1 THEN ConvertRGB(Opened(src)) ELSE NoImage]
            /\ cropped_img = [p \in Procs |-> NoImage]
            /\ found_by = [p \in Procs |-> "pending"]
            /\ metadata = [p \in Procs |-> EmptyMetadata]
            /\ ret = [p \in Procs |-> NoReturn]
            /\ files = << >>

NextCrop == \E p \in Procs : CropStep(p)

SpecCrop == InitCrop /\ [][NextCrop]_vars

(***************************************************************************)
(* schema_config.py: the values Document AI extracts and their formatting  *)
(* for Notion and for the spreadsheet.  A Python value is its type and its *)
(* payload; a string is the sequence of its characters.                    *)
(***************************************************************************)
PyNone     == [type |-> "NoneType", b |-> FALSE, s |-> << >>, n |-> 0]
PyBool(b)  == [type |-> "bool",  b |-> b,     s |-> << >>, n |-> 0]
PyStr(s)   == [type |-> "str",   b |-> FALSE, s |-> s,     n |-> 0]
PyInt(n)   == [type |-> "int",   b |-> FALSE, s |-> << >>, n |-> n]
PyFloat(n) == [type |-> "float", b |-> FALSE, s |-> << >>, n |-> n]

DecimalDigits == << "0", "1", "2", "3", "4", "5", "6", "7", "8", "9" >>
DigitOf(ch) == (CHOOSE i \in 1..10 : DecimalDigits[i] = ch) - 1
IsDigit(ch) == \E i \in 1..10 : DecimalDigits[i] = ch

Upper == << "A", "C", "D", "E", "F", "H", "K", "L", "N", "O", "R", "S", "T", "U", "X", "Y" >>
Lower == << "a", "c", "d", "e", "f", "h", "k", "l", "n", "o", "r", "s", "t", "u", "x", "y" >>

\* str.lower()
lower(s) ==
    [i \in 1..Len(s) |->
        IF \E k \in 1..Len(Upper) : Upper[k] = s[i]
        THEN Lower[CHOOSE k \in 1..Len(Upper) : Upper[k] = s[i]]
        ELSE s[i]]

\* str.strip()
strip(s) ==
    LET inked == { i \in 1..Len(s) : s[i] # " " }
    IN  IF inked = {} THEN << >>
        ELSE SubSeq(s, CHOOSE i \in inked : \A j \in inked : i <= j,
                       CHOOSE i \in inked : \A j \in inked : j <= i)

\* The decimal numeral of a natural number.
RECURSIVE Numeral(_)
Numeral(n) == IF n < 10 THEN << DecimalDigits[n + 1] >>
              ELSE Append(Numeral(n \div 10), DecimalDigits[(n % 10) + 1])

RECURSIVE NumberOf(_)
NumberOf(s) == IF s = << >> THEN 0
               ELSE 10 * NumberOf(SubSeq(s, 1, Len(s) - 1)) + DigitOf(s[Len(s)])

\* str(value)
str(value) ==
    CASE value.type = "str"  -> value.s
      [] value.type = "bool" -> IF value.b THEN << "T", "r", "u", "e" >>
                                ELSE << "F", "a", "l", "s", "e" >>
      [] value.type = "NoneType" -> << "N", "o", "n", "e" >>
      [] value.type = "float" -> Numeral(value.n) \o << ".", "0" >>
      [] OTHER -> Numeral(value.n)

\* bool(value), also the test of "if value"
Truthy(value) ==
    CASE value.type = "NoneType" -> FALSE
      [] value.type = "bool" -> value.b
      [] value.type = "str"  -> value.s # << >>
      [] OTHER -> value.n # 0

\* float(value) raises ValueError or TypeError: None, or a string that is not
\* a numeral once stripped.
FloatRaises(value) ==
    \/ value.type = "NoneType"
    \/ /\ value.type = "str"
       /\ \/ strip(value.s) = << >>
          \/ \E i \in 1..Len(strip(value.s)) : ~IsDigit(strip(value.s)[i])

\* float(value)
float(value) ==
    CASE value.type = "str"  -> PyFloat(NumberOf(strip(value.s)))
      [] value.type = "bool" -> PyFloat(IF value.b THEN 1 ELSE 0)
      [] OTHER -> PyFloat(value.n)

FieldTypes == { "text", "number", "checkbox" }

\* A Notion property {kind: v}; what is returned without a dict around it
\* is "bare".
Property(kind, v) == [kind |-> kind, v |-> v]
Bare(v)           == [kind |-> "bare", v |-> v]

\* SchemaField.to_notion_property
to_notion_property(field_type) ==
    CASE field_type = "text"   -> Property("rich_text", PyStr(<< >>))
      [] field_type = "number" -> Property("number", PyNone)
      [] OTHER                 -> Property("checkbox", PyBool(FALSE))

CheckedWords ==
    { << "t", "r", "u", "e" >>, << "y", "e", "s" >>, << "1" >>,
      << "c", "h", "e", "c", "k", "e", "d" >>, << "U+2713" >>, << "U+2714" >>, << "x" >> }

UncheckedWords ==
    { << "f", "a", "l", "s", "e" >>, << "n", "o" >>, << "0" >>,
      << "u", "n", "c", "h", "e", "c", "k", "e", "d" >>, << >> }

\* SchemaField.format_value_for_notion
format_value_for_notion(field_type, value) ==
    IF value.type = "NoneType" THEN to_notion_property(field_type)
    ELSE CASE field_type = "text" -> Property("rich_text", PyStr(str(value)))
           [] field_type = "number" ->
                 IF Truthy(value) /\ ~FloatRaises(value)
                 THEN Property("number", float(value))
                 ELSE Property("number", PyNone)
           [] OTHER ->
                 IF value.type = "bool" THEN Bare(PyBool(value.b))
                 ELSE IF value.type = "str"
                 THEN LET value_lower == strip(lower(value.s))
                      IN  IF value_lower \in CheckedWords THEN Bare(PyBool(TRUE))
                          ELSE IF value_lower \in UncheckedWords THEN Bare(PyBool(FALSE))
                          ELSE Bare(PyBool(TRUE))
                 ELSE Bare(PyBool(Truthy(value)))

\* SchemaField.format_value_for_sheets
format_value_for_sheets(field_type, value) ==
    IF value.type = "NoneType" THEN PyStr(<< >>)
    ELSE CASE field_type = "text" -> PyStr(str(value))
           [] field_type = "number" ->
                 IF Truthy(value) /\ ~FloatRaises(value) THEN float(value) ELSE PyStr(<< >>)
           [] OTHER ->
                 IF value.type = "bool" THEN PyBool(value.b)
                 ELSE IF value.type = "str"
                 THEN PyBool(lower(value.s) \in
                               { << "t", "r", "u", "e" >>, << "y", "e", "s" >>, << "1" >>,
                                 << "c", "h", "e", "c", "k", "e", "d" >> })
                 ELSE PyBool(Truthy(value))

\* The extracted values tried: None, booleans, numbers and strings.
StrValues ==
    { << >>, << " " >>, << "t", "r", "u", "e" >>, << "Y", "E", "S" >>, << " ", "x", " " >>,
      << "n", "o" >>, << "F", "a", "l", "s", "e" >>, << "0" >>, << "1" >>, << "4", "2" >>,
      << " ", "7" >>, << "U+2713" >>, << "a", "c" >>, << "u", "n", "c", "h", "e", "c", "k", "e", "d" >> }

PyValues ==
    { PyNone } \cup { PyBool(b) : b \in BOOLEAN } \cup { PyInt(n) : n \in { 0, 1, 12 } }
    \cup { PyFloat(n) : n \in { 0, 3 } } \cup { PyStr(s) : s \in StrValues }

\* One call of format_value_for_notion.
FormatForNotion ==
    /\ formatted.pc = "call"
    /\ formatted' = [formatted EXCEPT
                        !.pc = "done",
                        !.out = format_value_for_notion(formatted.field_type, formatted.value)]
    /\ UNCHANGED <<call, pc, img, cropped_img, found_by, metadata, ret, files, thumb,
                   remote, hnd>>

InitFormat ==
    /\ thumb = ThumbIdle /\ remote = NoRemote /\ hnd = HandlerOff
    /\ call = [p \in Procs |-> Idle]
    /\ pc = [p \in Procs |-> "off"]
    /\ img = [p \in Procs |-> NoImage]
    /\ cropped_img = [p \in Procs |-> NoImage]
    /\ found_by = [p \in Procs |-> "pending"]
    /\ metadata = [p \in Procs |-> EmptyMetadata]
    /\ ret = [p \in Procs |-> NoReturn]
    /\ files = << >>
    /\ \E t \in FieldTypes, v \in PyValues :
          formatted = [pc |-> "call", field_type |-> t, value |-> v, out |-> Bare(PyNone)]

NextFormat == FormatForNotion

SpecFormat == InitFormat /\ [][NextFormat]_vars

(***************************************************************************)
(* src/cloudrun/main.py: Drive.  remote.parents[f] is the set of folders   *)
(* of file f; remote.requests is the sequence of requests sent to Drive,   *)
(* Sheets, Document AI and Notion.                                         *)
(***************************************************************************)
uploads_folder_id   == "uploads"
processed_folder_id == "processed"
Folders == { uploads_folder_id, processed_folder_id, "archive" }
FileIds == { "f1", "f2" }

MaxMoves == 3

Request(service, op, arg) == <<service, op, arg>>

\* move_file_to_folder that updates the parents whatever they are.
MoveWithoutCheck(file_id, parents, folder_id) ==
    [returned |-> TRUE,
     parents  |-> (parents \ parents) \cup {folder_id},
     requests |-> << Request("drive", "files.get", file_id),
                     Request("drive", "files.update", file_id) >>]

\* move_file_to_folder once files().get has answered with parents: what it
\* returns, the parents of the file afterwards, the requests it has sent.
\* files().update adds addParents and removes removeParents.
move_file_to_folder(file_id, parents, folder_id) ==
    IF folder_id \in parents
    THEN [returned |-> FALSE, parents |-> parents,
          requests |-> << Request("drive", "files.get", file_id) >>]
    ELSE [returned |-> TRUE,
          parents  |-> (parents \ parents) \cup {folder_id},
          requests |-> << Request("drive", "files.get", file_id),
                          Request("drive", "files.update", file_id) >>]

\* One call of move_file_to_folder on a file; files().get may fail, and the
\* call then raises with nothing changed.
MoveCall(f) ==
    /\ hnd.pc = "moves" /\ Len(hnd.log) < MaxMoves
    /\ \/ \E m \in { move_file_to_folder(f, remote.parents[f], processed_folder_id) } :
             /\ remote' = [remote EXCEPT !.parents[f] = m.parents,
                                         !.requests = @ \o m.requests]
             /\ hnd' = [hnd EXCEPT !.log = Append(@, [file |-> f, returned |-> m.returned,
                                                      raised |-> FALSE])]
       \/ /\ remote' = [remote EXCEPT !.requests = Append(@, Request("drive", "files.get", f))]
          /\ hnd' = [hnd EXCEPT !.log = Append(@, [file |-> f, returned |-> FALSE,
                                                   raised |-> TRUE])]
    /\ UNCHANGED <<call, pc, img, cropped_img, found_by, metadata, ret, files, thumb,
                   formatted>>

PipelineIdle ==
    /\ thumb = ThumbIdle
    /\ call = [p \in Procs |-> Idle]
    /\ pc = [p \in Procs |-> "off"]
    /\ img = [p \in Procs |-> NoImage]
    /\ cropped_img = [p \in Procs |-> NoImage]
    /\ found_by = [p \in Procs |-> "pending"]
    /\ metadata = [p \in Procs |-> EmptyMetadata]
    /\ ret = [p \in Procs |-> NoReturn]
    /\ files = << >>

InitMove ==
    /\ PipelineIdle /\ formatted = NoFormatted
    /\ \E ps \in [FileIds -> SUBSET Folders] :
          remote = [parents |-> ps, sheet |-> << >>, requests |-> << >>]
    /\ hnd = [pc |-> "moves", log |-> << >>]

NextMove == \E f \in FileIds : MoveCall(f)

SpecMove == InitMove /\ [][NextMove]_vars

(***************************************************************************)
(* src/cloudrun/main.py: handle(), the webhook.  The extraction schema is  *)
(* taken with its first field, Khadde (serial_number, a number), so a row  *)
(* of the sheet is its Khadde cell; the header row is present, the other   *)
(* environment variables are set or not as one, THUMBNAILS_FOLDER_ID is    *)
(* unset.  remote.content[f] says what the download and Document AI give   *)
(* for file f; remote.notion holds the Khadde of each Notion page.         *)
(***************************************************************************)
WEBHOOK_SECRET == << "s", "3", "c" >>

\* The secret check of handle(): the status it answers with, "pass" when
\* the request goes on.  Without the comparison of the header.
AuthoriseAnyHeader(expected, got) ==
    IF ~Truthy(expected) THEN "500" ELSE "pass"

\* if not expected: 500; got = request.headers.get(...); if got != expected: 401
Authorise(expected, got) ==
    IF ~Truthy(expected) THEN "500"
    ELSE IF got # expected THEN "401"
    ELSE "pass"

\* int(value) raises ValueError for a string that is not a numeral.
IntRaises(value) == value.type = "NoneType" \/ FloatRaises(value)

\* str(int(row[0])) if row[0] is not None else ""
KhaddeOf(cell) == IF cell.type = "NoneType" THEN << >> ELSE Numeral(float(cell).n)

\* build_sheets_row for the schema of the one field Khadde.
build_sheets_row(extracted_data) ==
    << format_value_for_sheets("number", extracted_data.serial_number) >>

\* build_notion_properties for the same schema.
build_notion_properties(extracted_data) ==
    [Khadde |-> format_value_for_notion("number", extracted_data.serial_number)]

\* get_existing_khadde_ids: the Khadde values of column A, each with the
\* number of its row (the header is row 1).
get_existing_khadde_ids(sheet) ==
    LET filled == { i \in 1..Len(sheet) : ~IntRaises(sheet[i][1]) }
    IN  [k \in { KhaddeOf(sheet[i][1]) : i \in filled } |->
            1 + CHOOSE i \in filled :
                    /\ KhaddeOf(sheet[i][1]) = k
                    /\ \A j \in filled : KhaddeOf(sheet[j][1]) = k => j <= i]

\* update_row: the row of that number replaced.
update_row(sheet, row_number, row) == [sheet EXCEPT ![row_number - 1] = row]

\* get_existing_notion_khadde_ids: the pages whose Khadde is a number.
get_existing_notion_khadde_ids(pages) ==
    { Numeral(pages[i].Khadde.v.n) :
        i \in { j \in 1..Len(pages) : pages[j].Khadde.v.type = "float" } }

\* The request and the environment of one run of handle().
HandlerStart(secret, header, env_ok, notion_enabled) ==
    [pc |-> "auth", secret |-> secret, header |-> header, env_ok |-> env_ok,
     notion_enabled |-> notion_enabled, status |-> "none",
     files |-> << >>, i |-> 1, existing_khadde |-> << >>,
     new_rows |-> << >>, updated_rows |-> << >>, new_files_for_rows |-> << >>,
     existing_notion_khadde |-> {}, moved |-> {}]

Respond(status) == [hnd EXCEPT !.pc = "done", !.status = status]

HandlerFrame ==
    UNCHANGED <<call, pc, img, cropped_img, found_by, metadata, ret, files, thumb, formatted>>

\* Lines 130-161: the secret, then the required environment variables.
Authenticate ==
    /\ hnd.pc = "auth"
    /\ HandlerFrame /\ UNCHANGED remote
    /\ \E verdict \in { Authorise(hnd.secret, hnd.header) } :
          IF verdict # "pass" THEN hnd' = Respond(verdict)
          ELSE IF ~hnd.env_ok THEN hnd' = Respond("500")
          ELSE hnd' = [hnd EXCEPT !.pc = "list"]

\* Lines 163-185: the uploads listed, the header checked, the Khadde column read.
ListUploads ==
    /\ hnd.pc = "list"
    /\ HandlerFrame
    /\ remote' = [remote EXCEPT !.requests = @ \o
                    << Request("drive", "files.list", uploads_folder_id),
                       Request("sheets", "values.get", "header"),
                       Request("sheets", "values.get", "khadde") >>]
    /\ hnd' = [hnd EXCEPT
                !.pc = "file",
                !.files = SelectSeq(<< "f1", "f2" >>,
                                    LAMBDA f : uploads_folder_id \in remote.parents[f]),
                !.existing_khadde = get_existing_khadde_ids(remote.sheet)]

\* One pass of "for f in files" (lines 192-245).
ProcessFile ==
    /\ hnd.pc = "file" /\ hnd.i <= Len(hnd.files)
    /\ HandlerFrame
    /\ LET fid  == hnd.files[hnd.i]
           c    == remote.content[fid]
           row  == build_sheets_row(c.extracted_data)
           next == [hnd EXCEPT !.i = @ + 1]
           download == << Request("drive", "files.get_media", fid) >>
           process  == download \o << Request("documentai", "process_document", fid) >>
       IN  IF c.fetch = "download_fails"
           THEN /\ remote' = [remote EXCEPT !.requests = @ \o download]
                /\ hnd' = next
           ELSE IF c.fetch = "extraction_fails" \/ IntRaises(row[1])
           THEN /\ remote' = [remote EXCEPT !.requests = @ \o process]
                /\ hnd' = next
           ELSE LET khadde_value == KhaddeOf(row[1])
                    kept == [next EXCEPT !.new_files_for_rows =
                                Append(@, [id |-> fid, extracted_data |-> c.extracted_data])]
                IN  IF khadde_value # << >> /\ khadde_value \in DOMAIN hnd.existing_khadde
                    THEN /\ remote' = [remote EXCEPT
                                !.sheet = update_row(@, hnd.existing_khadde[khadde_value], row),
                                !.requests = @ \o process \o
                                    << Request("sheets", "values.update", khadde_value) >>]
                         /\ hnd' = [kept EXCEPT !.updated_rows = Append(@, khadde_value)]
                    ELSE /\ remote' = [remote EXCEPT !.requests = @ \o process]
                         /\ hnd' = [kept EXCEPT !.new_rows = Append(@, row)]

\* Line 248 and lines 268-283: append_rows, then the Notion client and the
\* Khadde of its pages.
AppendRows ==
    /\ hnd.pc = "file" /\ hnd.i > Len(hnd.files)
    /\ HandlerFrame
    /\ LET append == IF hnd.new_rows = << >> THEN << >>
                     ELSE << Request("sheets", "values.append", Len(hnd.new_rows)) >>
           query  == IF hnd.notion_enabled
                     THEN << Request("notion", "databases.query", "khadde") >> ELSE << >>
       IN  /\ remote' = [remote EXCEPT !.sheet = @ \o hnd.new_rows,
                                       !.requests = @ \o append \o query]
           /\ hnd' = [hnd EXCEPT
                        !.pc = IF hnd.notion_enabled /\ hnd.new_files_for_rows # << >>
                               THEN "notion" ELSE "move",
                        !.i = 1,
                        !.existing_notion_khadde =
                            IF hnd.notion_enabled
                            THEN get_existing_notion_khadde_ids(remote.notion) ELSE {}]

\* One pass of "for f in to_write" of the Notion stage (lines 296-327).
NotionFile ==
    /\ hnd.pc = "notion" /\ hnd.i <= Len(hnd.new_files_for_rows)
    /\ HandlerFrame
    /\ LET f == hnd.new_files_for_rows[hnd.i]
           v == f.extracted_data.serial_number
           khadde_value == IF v.type = "NoneType" THEN << >> ELSE str(v)
           next == [hnd EXCEPT !.i = IF hnd.i = Len(hnd.new_files_for_rows) THEN 1 ELSE @ + 1,
                               !.pc = IF hnd.i = Len(hnd.new_files_for_rows)
                                      THEN "move" ELSE "notion"]
       IN  /\ hnd' = next
           /\ IF khadde_value # << >> /\ khadde_value \in hnd.existing_notion_khadde
              THEN remote' = [remote EXCEPT !.requests =
                                Append(@, Request("notion", "pages.update", f.id))]
              ELSE remote' = [remote EXCEPT
                                !.notion = Append(@, build_notion_properties(f.extracted_data)),
                                !.requests = Append(@, Request("notion", "pages.create", f.id))]

\* One pass of "for f in to_write" of the move stage (lines 415-426).
MoveFile ==
    /\ hnd.pc = "move" /\ hnd.i <= Len(hnd.new_files_for_rows)
    /\ HandlerFrame
    /\ LET fid == hnd.new_files_for_rows[hnd.i].id
       IN  \E m \in { move_file_to_folder(fid, remote.parents[fid], processed_folder_id) } :
             /\ remote' = [remote EXCEPT !.parents[fid] = m.parents,
                                         !.requests = @ \o m.requests]
             /\ hnd' = [hnd EXCEPT !.i = @ + 1,
                                   !.moved = IF m.returned THEN @ \cup {fid} ELSE @]

\* Lines 428-453: the answer.
Answer ==
    /\ hnd.pc = "move" /\ hnd.i > Len(hnd.new_files_for_rows)
    /\ HandlerFrame /\ UNCHANGED remote
    /\ hnd' = Respond("200")

\* What Drive and Document AI give for a file: the download fails, the
\* extraction fails, or the serial number is not found or is a numeral.
Contents ==
    { [fetch |-> "download_fails", extracted_data |-> [serial_number |-> PyNone]],
      [fetch |-> "extraction_fails", extracted_data |-> [serial_number |-> PyNone]] }
    \cup { [fetch |-> "ok", extracted_data |-> [serial_number |-> v]] :
             v \in { PyNone, PyStr(<< "7" >>), PyStr(<< "1", "2" >>) } }

\* The sheets before the run: no Khadde twice.
Sheets0 ==
    { << >>, << <<PyFloat(7)>> >>, << <<PyFloat(12)>>, <<PyFloat(7)>> >> }

Headers == { PyNone, PyStr(WEBHOOK_SECRET), PyStr(<< "x" >>) }

InitHandle ==
    /\ PipelineIdle /\ formatted = NoFormatted
    /\ \E ps \in [FileIds -> { {uploads_folder_id}, {processed_folder_id} }],
          cs \in [FileIds -> Contents], sheet \in Sheets0,
          pages \in { << >>, << build_notion_properties([serial_number |-> PyStr(<< "7" >>)]) >> } :
          remote = [parents |-> ps, sheet |-> sheet, requests |-> << >>,
                    content |-> cs, notion |-> pages]
    /\ \E secret \in { PyNone, PyStr(WEBHOOK_SECRET) }, header \in Headers,
          env_ok \in BOOLEAN, notion_enabled \in BOOLEAN :
          /\ (secret = PyNone \/ header # secret \/ ~env_ok) => notion_enabled
          /\ hnd = HandlerStart(secret, header, env_ok, notion_enabled)

NextHandle ==
    \/ Authenticate \/ ListUploads \/ ProcessFile \/ AppendRows
    \/ NotionFile \/ MoveFile \/ Answer

SpecHandle == InitHandle /\ [][NextHandle]_vars

(***************************************************************************)
(* Properties.                                                             *)
(***************************************************************************)
\* The image an invocation hands back: the file at the returned path, the
\* image of the returned bytes, or none.
Output(p) ==
    CASE ret[p].kind = "cli" ->
            IF ret[p].final_path = None THEN NoImage
            ELSE files[ret[p].final_path].image
      [] ret[p].kind = "svc" -> ret[p].bytes.image
      [] OTHER -> NoImage

\* The enhancements of the Enhancer, all applied and in order, lead the
\* operations of an image.
Enhanced(image) ==
    /\ Len(image.ops) >= Len(EnhanceOps)
    /\ SubSeq(image.ops, 1, Len(EnhanceOps)) = EnhanceOps

\* C1: for every successful detection, by Strategy A or by Strategy B and on
\* either path, the region <<x, y, w, h>> that is cropped lies inside the
\* W x H source image: 0 <= x, 0 <= y, x + w <= W, y + h <= H.
C1_CropRegionInBounds ==
    \A p \in Procs :
        found_by[p] \in {"adaptive", "canny"} =>
            LET r == cropped_img[p].box
            IN  /\ 0 <= r[1] /\ 0 <= r[2]
                /\ r[1] + r[3] <= call[p].src.W
                /\ r[2] + r[4] <= call[p].src.H
                /\ cropped_img[p].w = r[3] /\ cropped_img[p].h = r[4]

\* Strategy A has cropped a card that lies nearer to the right border than the
\* padding: the padded region ends on the border.
C1_Witness ==
    \E p \in Procs :
        /\ found_by[p] = "adaptive"
        /\ cropped_img[p].box[1] > 0
        /\ cropped_img[p].box[1] + cropped_img[p].box[3] = call[p].src.W

\* C2: the Border Detector never raises to its caller: whatever the scene,
\* and whether OpenCV fails inside Strategy A or inside Strategy B, it ends
\* with a cropped image or with None, and the pipeline goes on to the crop.
C2_DetectorNeverRaises ==
    \A p \in Procs :
        /\ found_by[p] # "raised"
        /\ found_by[p] # "pending" =>
              /\ pc[p] = "crop"
              /\ (found_by[p] = "none") = (cropped_img[p] = NoImage)

\* Strategy B failed inside OpenCV and the detector returned None.
C2_Witness ==
    \E p \in Procs :
        /\ call[p].src.cvFault = "canny"
        /\ call[p].impl = "cli"
        /\ pc[p] = "crop"
        /\ found_by[p] = "none"

\* C3: after a detection miss the invocation still completes with a processed
\* image: the full image enhanced, resized and encoded, cropped = False.
C3_MissStillCompletes ==
    \A p \in Procs :
        (pc[p] = "done" /\ found_by[p] = "none") =>
            /\ Output(p) # NoImage
            /\ Enhanced(Output(p))
            /\ Output(p).box = <<0, 0, call[p].src.W, call[p].src.H>>
            /\ call[p].impl = "cli" => (metadata[p].success /\ ~metadata[p].cropped)
            /\ call[p].impl = "svc" => ret[p].bytes = JpegBytes(img[p], 95)

\* C4: for every decodable image (snapshots off) the returned image is
\* non-empty, both sides >= 1, and its longest side is at most 1600.
C4_OutputWithinTarget ==
    \A p \in Procs :
        (pc[p] = "done" /\ call[p].src.fmt # "garbage" /\ ~call[p].save_steps) =>
            /\ Output(p).w >= 1 /\ Output(p).h >= 1
            /\ Max(Output(p).w, Output(p).h) <= 1600

\* C5: the Resizer turns a w x h image with max(w, h) > T into one whose
\* longest side is exactly T and whose other side is the shorter side scaled
\* by T / max(w, h) to an integer; an image with max(w, h) <= T is passed
\* through unchanged.
C5_ResizerExact ==
    [][ \A p \in Procs :
          pc[p] = "resize" /\ pc'[p] # "resize" =>
            LET w == img[p].w
                h == img[p].h
            IN  IF Max(w, h) > 1600
                THEN /\ pc'[p] = "save"
                     /\ Max(img'[p].w, img'[p].h) = 1600
                     /\ Min(img'[p].w, img'[p].h) = (Min(w, h) * 1600) \div Max(w, h)
                ELSE /\ pc'[p] = "save"
                     /\ img'[p] = img[p] ]_vars

\* C6 (as the code has it): the loop encodes at 85, 75, 65, 55, 45 and 35 and
\* at nothing else, at most six times; it returns the first encoding of at
\* most 300*1024 bytes and, when none fits, the quality-35 encoding, its
\* last; the loop terminates: every pass lowers the quality by 10 and the
\* loop is never stuck short of a return.
C6_QualitySearch ==
    LET n == Len(thumb.tried)
    IN  /\ n <= 6
        /\ \A i \in 1..n : thumb.tried[i].quality = 85 - 10 * (i - 1)
        /\ \A i \in 1..(n - 1) : thumb.tried[i].size > 300 * 1024
        /\ thumb.pc = "loop" => \A i \in 1..n : thumb.tried[i].size > 300 * 1024
        /\ (thumb.pc = "done" /\ thumb.ret.kind = "bytes") =>
              /\ n >= 1
              /\ thumb.ret.out = thumb.tried[n]
              /\ \/ thumb.tried[n].size <= 300 * 1024
                 \/ n = 6 /\ thumb.ret.out.quality = 35
        /\ thumb.pc = "loop" =>
              /\ thumb.quality = 85 - 10 * n
              /\ ENABLED (ThumbEncode \/ ThumbReturn)

\* No encoding fitted: all six were tried and the last was returned.
C6_Witness ==
    /\ thumb.pc = "done"
    /\ thumb.ret.kind = "bytes"
    /\ Len(thumb.tried) = 6
    /\ thumb.ret.out.size > 300 * 1024
    /\ thumb.ret.out.quality = 35

\* C6 as stated: when no attempted encoding fits, the quality-30 encoding is
\* returned.
C6_ReturnsQuality30 ==
    ( /\ thumb.pc = "done"
      /\ thumb.ret.kind = "bytes"
      /\ \A i \in 1..Len(thumb.tried) : thumb.tried[i].size > 300 * 1024 )
    => thumb.ret.out.quality = 30

\* C7: when no attempted encoding fits, the encoding returned is the
\* smallest of those attempted, whatever sizes the encoder produced.
C7_ReturnsSmallest ==
    ( /\ thumb.pc = "done"
      /\ \A i \in 1..Len(thumb.tried) : thumb.tried[i].size > 300 * 1024 )
    => /\ thumb.ret.kind = "bytes" \/ thumb.tried = <<>>
       /\ thumb.ret.kind = "bytes" =>
             \A i \in 1..Len(thumb.tried) : thumb.ret.out.size <= thumb.tried[i].size

\* C8: an undecodable input ends the invocation with an error outcome: no
\* path from CardPreprocessor.preprocess, no (bytes, media type) pair from
\* preprocess_card_image.
C8_DecodeFailureSurfaced ==
    \A p \in Procs :
        (pc[p] = "done" /\ call[p].src.fmt = "garbage") =>
            /\ call[p].impl = "cli" => (ret[p].final_path = None /\ ~metadata[p].success)
            /\ call[p].impl = "svc" => ret[p].kind # "svc"

\* C9: preprocess_card_image returns, for every input and every declared
\* mime_type, the media type "image/jpeg" with the JPEG bytes of its Encoder
\* stage (quality 95, of the enhanced image).
C9_AlwaysJpeg ==
    \A p \in Procs :
        (pc[p] = "done" /\ call[p].impl = "svc") =>
            /\ ret[p].mime = "image/jpeg"
            /\ ret[p].bytes = JpegBytes(img[p], 95)
            /\ Enhanced(ret[p].bytes.image)

\* C10: with save_steps the invocation ends as it does without: the same
\* success flag, cropped flag, completed steps and final image, also when a
\* snapshot cannot be written.
C10_SnapshotsDoNotChangeOutcome ==
    ( /\ pc[1] = "done" /\ pc[2] = "done"
      /\ call[1].impl = "cli" /\ call[2].impl = "cli"
      /\ call[1].src = call[2].src
      /\ call[1].save_steps /\ ~call[2].save_steps )
    => /\ metadata[1].success = metadata[2].success
       /\ metadata[1].cropped = metadata[2].cropped
       /\ metadata[1].steps_completed = metadata[2].steps_completed
       /\ ret[1] = ret[2]
       /\ (ret[1].final_path # None => img[1] = img[2])

\* C11: two invocations on different images share nothing: when both have
\* ended, the file at the path each one returned is the JPEG of that
\* invocation's own final image, as it is when the invocation runs alone.
C11_ConcurrentRunsKeepTheirOutput ==
    ( /\ pc[1] = "done" /\ pc[2] = "done"
      /\ call[1].image_path # call[2].image_path
      /\ call[1].src # call[2].src )
    => \A p \in Procs :
          ret[p].final_path # None =>
              files[ret[p].final_path] = JpegBytes(img[p], 95)

\* The survivors of each strategy's filters in the image of invocation p.
SurvivorsA(p) ==
    ValidAdaptive(ExtractedBy(call[p].src.scene, "adaptive"), call[p].src.W, call[p].src.H)

SurvivorsB(p) ==
    ValidCanny(ExtractedBy(call[p].src.scene, "canny"), call[p].src.W, call[p].src.H)

\* C12: in _detect_card_border_v2 the strategies run in order and the first
\* success wins: with a survivor of Strategy A the detector ends there with
\* A's winner and Strategy B is not run; without one Strategy B is run next
\* and its outcome, a winner or None, is the detector's result.
C12_StrategiesInOrder ==
    [][ \A p \in Procs :
          (call[p].impl = "cli" /\ call[p].src.cvFault = "none") =>
            /\ (pc[p] = "detect" /\ pc'[p] # "detect") =>
                  IF SurvivorsA(p) # <<>>
                  THEN /\ pc'[p] = "crop"
                       /\ found_by'[p] = "adaptive"
                       /\ cropped_img'[p].box =
                            PadAndClamp(BestContour(SurvivorsA(p)),
                                        call[p].src.W, call[p].src.H)
                  ELSE /\ pc'[p] = "canny"
                       /\ found_by'[p] = "pending"
                       /\ cropped_img'[p] = NoImage
            /\ (pc[p] = "canny" /\ pc'[p] # "canny") =>
                  /\ SurvivorsA(p) = <<>>
                  /\ pc'[p] = "crop"
                  /\ IF SurvivorsB(p) # <<>>
                     THEN /\ found_by'[p] = "canny"
                          /\ cropped_img'[p].box = BoxOf(BestContour(SurvivorsB(p)))
                     ELSE /\ found_by'[p] = "none"
                          /\ cropped_img'[p] = NoImage ]_vars

\* Strategy A saw contours, none survived, and Strategy B supplied the winner.
C12_Witness ==
    \E p \in Procs :
        /\ call[p].src.cvFault = "none"
        /\ ExtractedBy(call[p].src.scene, "adaptive") # <<>>
        /\ pc[p] = "crop"
        /\ found_by[p] = "canny"

\* C13: when Strategy B supplies the winning box, the cropped region is that
\* box padded by 5 pixels and clamped, as it is for Strategy A.
C13_CannyBoxPadded ==
    \A p \in Procs :
        found_by[p] = "canny" =>
            cropped_img[p].box =
                PadAndClamp(BestContour(SurvivorsB(p)), call[p].src.W, call[p].src.H)

\* C14: when Strategy A wins with the box (x, y, w, h), the cropped region is
\* [x-5, x+w+5] x [y-5, y+h+5] cut to [0, W] x [0, H].
C14_PaddedRegionExact ==
    \A p \in Procs :
        found_by[p] = "adaptive" =>
            LET c      == BestContour(SurvivorsA(p))
                left   == Max(0, c.x - 5)
                top    == Max(0, c.y - 5)
                right  == Min(call[p].src.W, c.x + c.w + 5)
                bottom == Min(call[p].src.H, c.y + c.h + 5)
            IN  cropped_img[p].box = <<left, top, right - left, bottom - top>>

\* C20: the winner of a strategy is a survivor of it whose area is at least
\* that of every other survivor, and the region cropped is made from the
\* bounding box of that same contour.
C20_WinnerHasMaxArea ==
    \A p \in Procs :
        /\ found_by[p] = "adaptive" =>
              LET sa == SurvivorsA(p)
              IN  \E i \in 1..Len(sa) :
                      /\ \A j \in 1..Len(sa) : sa[j].area <= sa[i].area
                      /\ cropped_img[p].box =
                            PadAndClamp(sa[i], call[p].src.W, call[p].src.H)
        /\ found_by[p] = "canny" =>
              LET sb == SurvivorsB(p)
              IN  \E i \in 1..Len(sb) :
                      /\ \A j \in 1..Len(sb) : sb[j].area <= sb[i].area
                      /\ cropped_img[p].box = BoxOf(sb[i])

\* Strategy A chose between two survivors, the larger one coming last.
C20_Witness ==
    \E p \in Procs :
        /\ found_by[p] = "adaptive"
        /\ Len(SurvivorsA(p)) = 2
        /\ SurvivorsA(p)[1].area < SurvivorsA(p)[2].area

\* The steps an invocation of preprocess records, in order.
AllSteps == <<"load", "crop", "enhance", "resize">>

IsPrefix(a, b) == Len(a) <= Len(b) /\ a = SubSeq(b, 1, Len(a))

\* C15: the stages of an invocation run in the order Loader, Border Detector
\* (Strategy A, then its fallback), Cropper, Enhancer, Resizer, Encoder, one
\* after the other, none twice and none out of order; an invocation that has
\* ended stays ended; steps_completed is always a prefix of
\* [load, crop, enhance, resize] and holds the stages finished so far.
C15_StagesInOrder ==
    [][ \A p \in Procs :
          /\ pc'[p] # pc[p] =>
                \/ pc[p] # "done" /\ pc'[p] = "done"
                \/ pc[p] = "load" /\ pc'[p] = "detect"
                \/ pc[p] = "detect" /\ pc'[p] \in {"canny", "crop"}
                \/ pc[p] = "canny" /\ pc'[p] = "crop"
                \/ pc[p] = "crop" /\ pc'[p] = "enhance"
                \/ pc[p] = "enhance" /\ pc'[p] = "resize"
                \/ pc[p] = "resize" /\ pc'[p] = "save"
          /\ IsPrefix(metadata'[p].steps_completed, AllSteps)
          /\ call[p].impl = "cli" =>
                /\ pc'[p] \in {"detect", "canny", "crop"} =>
                      metadata'[p].steps_completed = <<"load">>
                /\ pc'[p] = "enhance" =>
                      metadata'[p].steps_completed = <<"load", "crop">>
                /\ pc'[p] = "resize" =>
                      metadata'[p].steps_completed = <<"load", "crop", "enhance">>
                /\ pc'[p] = "save" => metadata'[p].steps_completed = AllSteps
                /\ metadata'[p].success => metadata'[p].steps_completed = AllSteps
          /\ pc'[p] \in {"load", "detect", "canny", "crop", "enhance"} =>
                img'[p].ops = <<>>
          /\ pc'[p] = "resize" => Len(img'[p].ops) = 4
          /\ pc'[p] = "save" => Len(img'[p].ops) \in {4, 5} ]_vars

\* An invocation of preprocess has run all its stages and succeeded.
C15_Witness ==
    \E p \in Procs :
        /\ call[p].impl = "cli"
        /\ pc[p] = "done"
        /\ metadata[p].success
        /\ metadata[p].steps_completed = <<"load", "crop", "enhance", "resize">>
        /\ found_by[p] = "canny"

\* C16: the Enhancer applies contrast 1.3, sharpness 1.5, brightness 1.1 and
\* the unsharp mask (radius 1, percent 100, threshold 3) in this order, each
\* to the output of the one before, in both implementations: the image after
\* the Enhancer carries exactly these four adjustments in order, and the
\* snapshots of preprocess show the chain growing.
C16_EnhancerOrder ==
    \A p \in Procs :
        /\ pc[p] \in {"resize", "save"} =>
              SubSeq(img[p].ops, 1, 4) =
                  << <<"contrast", 13>>, <<"sharpness", 15>>,
                     <<"brightness", 11>>, <<"unsharp", 1, 100, 3>> >>
        /\ (call[p].impl = "cli" /\ call[p].save_steps /\ pc[p] \in {"resize", "save"}) =>
              /\ files[StepPath("03_contrast.jpg")].ops = << <<"contrast", 13>> >>
              /\ files[StepPath("04_sharpness.jpg")].ops =
                    << <<"contrast", 13>>, <<"sharpness", 15>> >>
              /\ files[StepPath("05_enhanced.jpg")].ops =
                    << <<"contrast", 13>>, <<"sharpness", 15>>,
                       <<"brightness", 11>>, <<"unsharp", 1, 100, 3>> >>

\* The service path has enhanced an image.
C16_Witness ==
    \E p \in Procs :
        /\ call[p].impl = "svc"
        /\ pc[p] = "resize"
        /\ Len(img[p].ops) = 4

\* The contour of a one-contour image, and whether it was extracted for the
\* strategy that ended the detection of invocation p.
TheContour(p) == call[p].src.scene[1]

Selected(p) == found_by[p] \in {"adaptive", "canny"}

\* The filters as stated, in exact arithmetic.
AreaInRange(c, W, H)  == 5 * c.area >= W * H /\ 20 * c.area <= 19 * W * H
AspectInRange(c)      == 5 * c.w > 3 * c.h /\ 2 * c.w < 3 * c.h
Judged(p) ==
    /\ pc[p] = "crop"
    /\ Len(call[p].src.scene) = 1
    /\ call[p].impl = "svc" => TheContour(p).by = "adaptive"

\* C17: the area filter rejects a contour exactly when its area is below 20%
\* or above 95% of W*H: no winner has an area outside [0.2*W*H, 0.95*W*H],
\* and a contour that passes the other filters of its strategy wins exactly
\* when its area lies inside.
C17_AreaFilter ==
    \A p \in Procs :
        Judged(p) =>
            LET c == TheContour(p)
                W == call[p].src.W
                H == call[p].src.H
            IN  /\ Selected(p) => AreaInRange(c, W, H)
                /\ (AspectInRange(c) /\ (c.corners = 4 \/ c.by = "canny")) =>
                      (Selected(p) = AreaInRange(c, W, H))

\* A contour of exactly 20% of the image area has won.
C17_Witness ==
    \E p \in Procs :
        /\ Judged(p)
        /\ Selected(p)
        /\ 5 * TheContour(p).area = call[p].src.W * call[p].src.H

\* C18: Strategy A accepts only a contour whose approximation has exactly 4
\* vertices; Strategy B has no such test: a contour with another vertex
\* count that passes the area and aspect filters never wins Strategy A and
\* wins Strategy B.
C18_FourCornersOnlyInA ==
    \A p \in Procs :
        Judged(p) =>
            LET c == TheContour(p)
            IN  /\ found_by[p] = "adaptive" => c.corners = 4
                /\ ( /\ c.by = "canny"
                     /\ AreaInRange(c, call[p].src.W, call[p].src.H)
                     /\ AspectInRange(c) ) => found_by[p] = "canny"

\* A pentagon has won Strategy B.
C18_Witness ==
    \E p \in Procs :
        /\ Judged(p)
        /\ found_by[p] = "canny"
        /\ TheContour(p).corners # 4

\* C19: the aspect filter is strict at both ends in both strategies: a
\* winner's bounding box has 0.6 < w/h < 1.5, and a contour whose ratio is
\* exactly 0.6 or exactly 1.5 is rejected.
C19_AspectStrict ==
    \A p \in Procs :
        Judged(p) =>
            LET c == TheContour(p)
            IN  /\ Selected(p) => AspectInRange(c)
                /\ (5 * c.w = 3 * c.h \/ 2 * c.w = 3 * c.h) => found_by[p] = "none"

\* Strategy B has rejected a contour, large enough, whose ratio is exactly 0.6.
C19_Witness ==
    \E p \in Procs :
        /\ Judged(p)
        /\ TheContour(p).by = "canny"
        /\ 5 * TheContour(p).w = 3 * TheContour(p).h
        /\ AreaInRange(TheContour(p), call[p].src.W, call[p].src.H)
        /\ found_by[p] = "none"

\* The source of invocation p without its contours of height 0.
WithoutZeroHeight(src) ==
    LET Test(c) == c.h # 0 IN [src EXCEPT !.scene = SelectSeq(src.scene, Test)]

HasZeroHeight(src) == \E i \in 1..Len(src.scene) : src.scene[i].h = 0

\* C21: a contour whose bounding box has height 0 is rejected and the other
\* contours are still filtered and the largest survivor still wins: the
\* detector ends as it does on the same image without that contour.
C21_ZeroHeightRejected ==
    \A p \in Procs :
        (pc[p] \notin {"off", "detect", "canny"} /\ HasZeroHeight(call[p].src)) =>
            <<found_by[p], cropped_img[p]>>
                = DetectorResult(call[p].impl, img[p], WithoutZeroHeight(call[p].src))

\* Strategy A has met a quadrilateral of height 0 and another contour has won it.
C21_Witness ==
    \E p \in Procs :
        /\ pc[p] = "crop"
        /\ found_by[p] = "adaptive"
        /\ \E i \in 1..Len(call[p].src.scene) :
              LET c == call[p].src.scene[i]
              IN  c.h = 0 /\ c.by = "adaptive" /\ c.corners = 4

\* C22: an unexpected error inside Strategy A counts as Strategy A having
\* failed: Strategy B is then attempted and the detector ends with what
\* Strategy B gives.
C22_ErrorInAFallsToB ==
    \A p \in Procs :
        ( /\ call[p].impl = "cli"
          /\ pc[p] \notin {"detect", "canny"}
          /\ call[p].src.cvFault = "adaptive" ) =>
            <<found_by[p], cropped_img[p]>>
                = Labelled(ExceptReturnNone(CannyBody(img[p], call[p].src)), "canny")

C24_ServiceDetectorSameAsCli ==
    \A p \in Procs :
        (call[p].impl = "svc" /\ pc[p] \notin {"load", "detect"} /\ found_by[p] # "pending") =>
            cropped_img[p] = DetectorResult("cli", img[p], call[p].src)[2]

\* C26: on every return of preprocess the metadata has the key 'success';
\* the returned path is None exactly when metadata['success'] is False, and
\* is the path of the saved file exactly when it is True.
C26_SuccessKeyMatchesPath ==
    \A p \in Procs :
        ret[p].kind = "cli" =>
            /\ "success" \in metadata[p].keys
            /\ (ret[p].final_path = None) = ~metadata[p].success
            /\ metadata[p].success =>
                  (ret[p].final_path = FinalPath(call[p]) /\ ret[p].final_path \in DOMAIN files)

\* C30: for every field type and every extracted value, format_value_for_notion
\* returns a property dict of the shape to_notion_property gives for the
\* type; for a checkbox field it is {"checkbox": b} with b a boolean.
C30_NotionValueShape ==
    formatted.pc = "done" =>
        /\ formatted.out.kind = to_notion_property(formatted.field_type).kind
        /\ formatted.field_type = "checkbox" =>
              (formatted.out.kind = "checkbox" /\ formatted.out.v.type = "bool")

\* The update requests Drive has received for file f.
UpdatesOf(f) ==
    { i \in 1..Len(remote.requests) : remote.requests[i] = Request("drive", "files.update", f) }

\* C25: move_file_to_folder is idempotent: a call that moves the file leaves
\* the processed folder as its only parent, and every further call on the
\* file returns False, sends no update to Drive and leaves the parents as
\* they are.
C25_MoveIdempotent ==
    [][ \A f \in FileIds :
          LET n     == Len(hnd.log)
              moved == \E i \in 1..n : hnd.log[i].file = f /\ hnd.log[i].returned
              last  == hnd'.log[n + 1]
          IN  (hnd.pc = "moves" /\ Len(hnd'.log) = n + 1 /\ last.file = f) =>
                 /\ last.returned => remote'.parents[f] = {processed_folder_id}
                 /\ moved => /\ ~last.returned
                             /\ UpdatesOf(f)' = UpdatesOf(f)
                             /\ remote'.parents[f] = remote.parents[f]
                             /\ remote.parents[f] = {processed_folder_id} ]_vars

\* A file was moved and move_file_to_folder was called on it again.
C25_Witness ==
    /\ hnd.pc = "moves"
    /\ \E i, j \in 1..Len(hnd.log) :
          /\ i < j
          /\ hnd.log[i].file = hnd.log[j].file
          /\ hnd.log[i].returned
          /\ ~hnd.log[j].raised

\* WEBHOOK_SECRET is configured and the request's header equals it.
SecretPresented == hnd.secret.type = "str" /\ hnd.secret.s # << >> /\ hnd.header = hnd.secret

\* C27: unless WEBHOOK_SECRET is configured and the X-Webhook-Secret header
\* equals it, handle() answers 500 (secret unset) or 401 (header missing or
\* different) and sends no request to Drive, Sheets, Document AI or Notion:
\* no external state is read or changed.
C27_NoCallWithoutSecret ==
    [][ (hnd.pc \notin {"off", "moves"} /\ ~SecretPresented) =>
            /\ remote' = remote
            /\ remote'.requests = << >>
            /\ hnd'.pc = "done"
            /\ hnd'.status = IF hnd.secret.type = "NoneType" THEN "500" ELSE "401" ]_vars

\* A request without the header was answered 401.
C27_Witness ==
    /\ hnd.pc = "done"
    /\ hnd.secret = PyStr(WEBHOOK_SECRET)
    /\ hnd.header = PyNone
    /\ hnd.status = "401"
    /\ remote.requests = << >>

\* C28: after handle() has processed a batch the sheet holds at most one
\* row for each non-empty Khadde, also when two files of the batch carry
\* the same Khadde that was not in the sheet before.
C28_OneRowPerKhadde ==
    (hnd.pc = "done" /\ hnd.status = "200") =>
        \A i, j \in 1..Len(remote.sheet) :
            ( /\ i < j
              /\ remote.sheet[i][1].type = "float"
              /\ remote.sheet[j][1].type = "float" ) =>
                remote.sheet[i][1].n # remote.sheet[j][1].n

\* C29: every file whose download and extraction succeed updates a row or
\* is appended as a new row, is in the list written to Notion and is moved
\* to the processed folder; a file without a serial number is appended with
\* an empty Khadde.
C29_EveryExtractedFileIsWritten ==
    (hnd.pc = "done" /\ hnd.status = "200") =>
        \A k \in 1..Len(hnd.files) :
            LET fid == hnd.files[k]
                c   == remote.content[fid]
            IN  c.fetch = "ok" =>
                  /\ \E i \in 1..Len(hnd.new_files_for_rows) :
                        hnd.new_files_for_rows[i].id = fid
                  /\ remote.parents[fid] = {processed_folder_id}
                  /\ \E i \in 1..Len(remote.sheet) :
                        remote.sheet[i][1] =
                            IF c.extracted_data.serial_number.type = "NoneType"
                            THEN PyStr(<< >>)
                            ELSE PyFloat(NumberOf(c.extracted_data.serial_number.s))
====
